---- MODULE Spec2Model ----
(***************************************************************************)
(* Model of the ARKLA extraction pipeline (arkla-backend):                 *)
(*   - GeminiEngine._call_with_retry, the classified-retry wrapper around  *)
(*     one backend operation (services/gemini_engine.py);                  *)
(*   - process_surat, the pipeline entry point, in unified ("optimized")   *)
(*     and legacy mode (routes/process.py);                                *)
(*   - TextSummarizer.summarize and AutoFieldFiller.extract_fields, the    *)
(*     legacy steps with their deterministic fallbacks.                    *)
(* Texts are abstracted to kinds (none / empty / blank / text ...), token  *)
(* counts are small naturals, confidences are percentages, costs are in    *)
(* units of 1e-10 USD, delays are in seconds.                              *)
(***************************************************************************)
EXTENDS Integers, Sequences, FiniteSets, TLC

(* ---------------- program constants (core/constants.py) ---------------- *)
MAX_RETRIES == 3
INITIAL_RETRY_DELAY == 2
MAX_RETRY_DELAY == 32
RATE_LIMIT_DELAY == 60
CONFIDENCE_MEDIUM == 60
\* cost per 1M tokens in units of 1e-4 USD (0.0075 USD and 0.030 USD)
GEMINI_INPUT_COST_PER_1M == 75
GEMINI_OUTPUT_COST_PER_1M == 300

(* ---------------- bounds of the model ---------------- *)
\* largest prompt / candidate token count a backend response reports
MaxTok == 1
\* largest number of classifier markers in one exception message
MaxMarkers == 2
\* largest number of pieces of a response text
MaxLen == 4
\* the number of pieces that stand for the first 200 characters
SummaryLimit == 2

(* ---------------- backend error messages and their classification ------ *)
RateMarkers == {"429", "rate"}
TransientMarkers == {"timeout", "connection"}
AuthMarkers == {"api key", "authentication"}
ServerMarkers == {"500", "503", "server"}
Markers == RateMarkers \cup TransientMarkers \cup AuthMarkers \cup ServerMarkers

\* an exception message, abstracted to the set of markers it contains
Messages == {m \in SUBSET Markers : Cardinality(m) <= MaxMarkers}

\* messages of the exceptions store_usage_log can raise (sqlite3 errors such as
\* "database is locked"): they carry none of the markers
StoreErrorMessages == {{}}

ErrorClasses == {"RateLimited", "Transient", "FatalAuth", "ServerError", "Unknown"}

\* one message of each class
ClassMessages == {{"429"}, {"timeout"}, {"api key"}, {"500"}, {}}

\* the if / elif chain of the except block, in its order
Classify(msg) ==
    IF msg \cap RateMarkers # {} THEN "RateLimited"
    ELSE IF msg \cap TransientMarkers # {} THEN "Transient"
    ELSE IF msg \cap AuthMarkers # {} THEN "FatalAuth"
    ELSE IF msg \cap ServerMarkers # {} THEN "ServerError"
    ELSE "Unknown"

RECURSIVE Pow2(_)
Pow2(n) == IF n = 0 THEN 1 ELSE 2 * Pow2(n - 1)

Min(a, b) == IF a <= b THEN a ELSE b

\* variant: the delay grows linearly
exponential_backoff_Linear(attempt) ==
    Min(INITIAL_RETRY_DELAY * (attempt + 1), MAX_RETRY_DELAY)

exponential_backoff(attempt) ==
    Min(INITIAL_RETRY_DELAY * Pow2(attempt), MAX_RETRY_DELAY)

\* variant: a rate-limited attempt backs off like the others
RetryDelay_Backoff(cls, attempt) == exponential_backoff(attempt)

\* the delay slept after a failed attempt of a retryable class
RetryDelay(cls, attempt) ==
    IF cls = "RateLimited" THEN RATE_LIMIT_DELAY ELSE exponential_backoff(attempt)

\* variant: off by one, a sleep follows the last attempt too
AttemptsRemain_Inclusive(attempt) == attempt <= MAX_RETRIES

\* "if attempt < MAX_RETRIES" : a sleep and a retry follow
AttemptsRemain(attempt) == attempt < MAX_RETRIES

\* variant: one iteration more
InRange_Extra(attempt) == attempt < MAX_RETRIES + 2

\* "for attempt in range(MAX_RETRIES + 1)"
InRange(attempt) == attempt < MAX_RETRIES + 1

\* cost in units of 1e-10 USD
calculate_cost(input_tokens, output_tokens) ==
    input_tokens * GEMINI_INPUT_COST_PER_1M + output_tokens * GEMINI_OUTPUT_COST_PER_1M

(* ---------------- operations and results ---------------- *)
Operations == {"unified_extract", "ocr", "summarization", "auto_fill"}

\* operation.upper()
Upper(operation) ==
    CASE operation = "unified_extract" -> "UNIFIED_EXTRACT"
      [] operation = "ocr" -> "OCR"
      [] operation = "summarization" -> "SUMMARIZATION"
      [] operation = "auto_fill" -> "AUTO_FILL"

\* f"{operation.upper()}_FAILED"
FailedError(operation) ==
    CASE Upper(operation) = "UNIFIED_EXTRACT" -> "UNIFIED_EXTRACT_FAILED"
      [] Upper(operation) = "OCR" -> "OCR_FAILED"
      [] Upper(operation) = "SUMMARIZATION" -> "SUMMARIZATION_FAILED"
      [] Upper(operation) = "AUTO_FILL" -> "AUTO_FILL_FAILED"

\* the GeminiResult dataclass; "none" stands for None
NoResult ==
    [success |-> FALSE, data |-> "none", input_tokens |-> 0, output_tokens |-> 0,
     cost |-> 0, error |-> "none", fallback_reason |-> "none", returned |-> FALSE]

SuccessResult(data, input_tokens, output_tokens) ==
    [success |-> TRUE, data |-> data, input_tokens |-> input_tokens,
     output_tokens |-> output_tokens,
     cost |-> calculate_cost(input_tokens, output_tokens),
     error |-> "none", fallback_reason |-> "none", returned |-> TRUE]

FailureResult(error, reason) ==
    [success |-> FALSE, data |-> "none", input_tokens |-> 0, output_tokens |-> 0,
     cost |-> 0, error |-> error, fallback_reason |-> reason, returned |-> TRUE]

\* response.text of a successful backend response, by operation
TextKinds == {"none", "empty", "blank", "text"}
UnifiedKinds == {"none", "empty", "blank", "unparseable", "nonobject",
                 "obj_missing", "obj_null", "obj_empty", "obj_blank", "obj_text"}
AutoFillKinds == {"none", "empty", "blank", "object", "malformed", "nonobject"}

ResponseKinds(operation) ==
    CASE operation = "unified_extract" -> UnifiedKinds
      [] operation = "auto_fill" -> AutoFillKinds
      [] OTHER -> TextKinds

Tokens == 0..MaxTok

\* a response that reports no token counts (usage_metadata absent or None counts)
NoTokens == {0}

\* Python truthiness of a string or None
Truthy(kind) == kind \notin {"none", "empty"}

\* variant: "not raw_text", without the strip
IsBlank_NoStrip(kind) == kind = "empty"

\* "not raw_text.strip()" of a string
IsBlank(kind) == kind \in {"empty", "blank"}

VARIABLES
    pc,               \* position of process_surat: "idle", an operation name, "done"
    mode,             \* use_optimized: "unified" or "legacy"
    api_key,          \* settings.google_api_key is set
    available,        \* gemini_engine.is_available()
    kode_enabled,     \* settings.gemini_kode_matching_enabled
    phase,            \* position in _call_with_retry: "none", "invoke", "sleep", "returned"
    attempt,          \* loop variable of _call_with_retry
    delay,            \* the delay being slept
    waits,            \* delays slept so far in the current call
    callInv,          \* backend invocations made by the current call
    callRecs,         \* usage records written by the current call
    recFailed,        \* store_usage_log raised in the current call
    lastMsg,          \* message of the exception being handled
    lastClass,        \* its class
    res,              \* GeminiResult returned by the current call
    invTotal,         \* backend invocations of the submission
    calls,            \* operations whose backend call was made, in order
    recs,             \* api_usage rows of the submission
    recCost,          \* sum of their estimated_cost_usd
    callTokens,       \* [input, output]: sums of the tokens of the calls that succeeded
    raw_text,         \* kind of raw_text
    isi_ringkas,      \* kind of isi_ringkas
    summary_confidence,
    steps_completed,
    steps_failed,
    total_tokens,     \* [input, output]
    ran,              \* later steps that ran for the submission
    status,           \* "none", "success", "partial_success", "error"
    code,             \* ErrorCode of an error response
    detail,           \* details.step_failed / details.error_type of an error response
    message,          \* kind of the response's message / detail text
    extracted_fields, \* field name -> value kind of the result
    field_confidences,      \* field name -> confidence (percent) of the result
    requires_manual_review, \* requires_manual_review of the result
    other,            \* a second submission: "absent", "queued", "done"
    input,            \* the argument of a function that is applied on its own
    output,           \* its result
    ref_klasifikasi,  \* the keterangan of the rows of table ref_klasifikasi
    kode_data         \* kode_matcher.kode_data: the rows held in memory

callVars == <<phase, attempt, delay, waits, callInv, callRecs, recFailed,
              lastMsg, lastClass, res>>
\* what no step of the submission changes: the settings, the other submission,
\* the function applied on its own
refVars == <<ref_klasifikasi, kode_data>>
envVars == <<api_key, available, kode_enabled, other, input, output, refVars>>
subVars == <<mode, invTotal, calls, recs, recCost, callTokens, raw_text, isi_ringkas,
             summary_confidence, steps_completed, steps_failed, total_tokens,
             ran, status, code, detail>>
outVars == <<message, extracted_fields, field_confidences, requires_manual_review>>
vars == <<pc, callVars, envVars, subVars, outVars>>

NoDetail == [step_failed |-> "none", error_type |-> "none"]

\* kode_data of a matcher that holds the rows, and of one that holds None
Loaded(rows) == [loaded |-> TRUE, rows |-> rows]

NotLoaded == [loaded |-> FALSE, rows |-> <<>>]

\* an empty reference table, of which the matcher found nothing to load
NoReference ==
    /\ ref_klasifikasi = <<>>
    /\ kode_data = NotLoaded

Init ==
    /\ pc = "idle"
    /\ mode = "unified"
    /\ api_key \in BOOLEAN
    /\ available \in {a \in BOOLEAN : a => api_key}
    /\ kode_enabled \in BOOLEAN
    /\ other = "absent"
    /\ input = "none"
    /\ output = "none"
    /\ NoReference
    /\ phase = "none"
    /\ attempt = 0
    /\ delay = 0
    /\ waits = <<>>
    /\ callInv = 0
    /\ callRecs = 0
    /\ recFailed = FALSE
    /\ lastMsg = {}
    /\ lastClass = "none"
    /\ res = NoResult
    /\ invTotal = 0
    /\ calls = <<>>
    /\ recs = 0
    /\ recCost = 0
    /\ callTokens = [input |-> 0, output |-> 0]
    /\ raw_text = "empty"
    /\ isi_ringkas = "empty"
    /\ summary_confidence = 85
    /\ steps_completed = <<>>
    /\ steps_failed = <<>>
    /\ total_tokens = [input |-> 0, output |-> 0]
    /\ ran = {}
    /\ status = "none"
    /\ code = "none"
    /\ detail = NoDetail
    /\ message = "none"
    /\ extracted_fields = <<>>
    /\ field_confidences = <<>>
    /\ requires_manual_review = FALSE

(* ---------------- GeminiEngine._call_with_retry ---------------- *)
\* variant: the invalid-API-key branch is missing
Fatal_Retried(cls) == FALSE

\* the invalid-API-key branch returns instead of retrying
Fatal(cls) == cls = "FatalAuth"

\* entry of _call_with_retry for the operation the pipeline is at
StartCall ==
    /\ phase' = "invoke"
    /\ attempt' = 0
    /\ delay' = 0
    /\ waits' = <<>>
    /\ callInv' = 0
    /\ callRecs' = 0
    /\ recFailed' = FALSE
    /\ lastMsg' = {}
    /\ lastClass' = "none"
    /\ res' = NoResult
    /\ calls' = Append(calls, pc)

\* the locals of _call_with_retry are gone once its result is consumed
EndCall ==
    /\ attempt' = 0
    /\ delay' = 0
    /\ waits' = <<>>
    /\ callInv' = 0
    /\ callRecs' = 0
    /\ recFailed' = FALSE
    /\ lastMsg' = {}
    /\ lastClass' = "none"
    /\ res' = NoResult

\* the next iteration of the for loop, or the code after it
ContinueLoop ==
    IF InRange(attempt + 1)
    THEN /\ phase' = "invoke"
         /\ attempt' = attempt + 1
         /\ res' = res
    ELSE /\ phase' = "returned"
         /\ attempt' = attempt
         /\ res' = FailureResult(FailedError(pc), "Max retries exhausted")

\* the except block for an exception with message msg
HandleFailure(msg) ==
    LET cls == Classify(msg) IN
    /\ IF Fatal(cls)
       THEN /\ phase' = "returned"
            /\ res' = FailureResult("GEMINI_CONFIG_ERROR", "Invalid API key")
            /\ lastMsg' = msg
            /\ lastClass' = cls
            /\ UNCHANGED <<attempt, delay, waits>>
       ELSE IF AttemptsRemain(attempt)
       THEN /\ phase' = "sleep"
            /\ delay' = RetryDelay(cls, attempt)
            /\ waits' = Append(waits, RetryDelay(cls, attempt))
            /\ lastMsg' = msg
            /\ lastClass' = cls
            /\ UNCHANGED <<attempt, res>>
       ELSE /\ ContinueLoop
            /\ lastMsg' = {}
            /\ lastClass' = "none"
            /\ UNCHANGED <<delay, waits>>

InCall == pc \in Operations /\ phase = "invoke"

\* api_call() returns a response and store_usage_log writes its row
AttemptSucceeds(counts) ==
    /\ InCall
    /\ \E data \in ResponseKinds(pc), input_tokens \in counts, output_tokens \in counts :
         /\ res' = SuccessResult(data, input_tokens, output_tokens)
         /\ recCost' = recCost + calculate_cost(input_tokens, output_tokens)
         /\ callTokens' = [input |-> callTokens.input + input_tokens,
                            output |-> callTokens.output + output_tokens]
    /\ callInv' = callInv + 1
    /\ invTotal' = invTotal + 1
    /\ recs' = recs + 1
    /\ callRecs' = callRecs + 1
    /\ phase' = "returned"
    /\ UNCHANGED <<pc, envVars, attempt, delay, waits, recFailed, lastMsg, lastClass,
                   mode, calls, raw_text, isi_ringkas, summary_confidence,
                   steps_completed, steps_failed, total_tokens, ran, status, code, detail, outVars>>

\* api_call() raises
AttemptFails(messages) ==
    /\ InCall
    /\ \E msg \in messages : HandleFailure(msg)
    /\ callInv' = callInv + 1
    /\ invTotal' = invTotal + 1
    /\ UNCHANGED <<pc, envVars, callRecs, recFailed, mode, calls, recs, recCost, callTokens,
                   raw_text, isi_ringkas, summary_confidence, steps_completed,
                   steps_failed, total_tokens, ran, status, code, detail, outVars>>

\* variant: the row is committed before store_usage_log raises
AttemptRecordFails_Committed ==
    /\ InCall
    /\ \E msg \in StoreErrorMessages : HandleFailure(msg)
    /\ recFailed' = TRUE
    /\ callInv' = callInv + 1
    /\ invTotal' = invTotal + 1
    /\ callRecs' = callRecs + 1
    /\ recs' = recs + 1
    /\ UNCHANGED <<pc, envVars, mode, calls, recCost, callTokens,
                   raw_text, isi_ringkas, summary_confidence, steps_completed,
                   steps_failed, total_tokens, ran, status, code, detail, outVars>>

\* api_call() returns a response, store_usage_log raises inside the try block
AttemptRecordFails ==
    /\ InCall
    /\ \E msg \in StoreErrorMessages : HandleFailure(msg)
    /\ recFailed' = TRUE
    /\ callInv' = callInv + 1
    /\ invTotal' = invTotal + 1
    /\ UNCHANGED <<pc, envVars, callRecs, mode, calls, recs, recCost, callTokens,
                   raw_text, isi_ringkas, summary_confidence, steps_completed,
                   steps_failed, total_tokens, ran, status, code, detail, outVars>>

\* time.sleep returns, "continue"
WakeUp ==
    /\ pc \in Operations
    /\ phase = "sleep"
    /\ delay' = 0
    /\ lastMsg' = {}
    /\ lastClass' = "none"
    /\ ContinueLoop
    /\ UNCHANGED <<pc, envVars, waits, callInv, callRecs, recFailed, subVars, outVars>>

(* ---------------- field values and confidences ---------------- *)
\* the fields of a category's schema, one of each kind: the summary field,
\* a field that is not a date, a date field
Fields == {"isi_ringkas", "nomor_surat", "tgl_surat"}

\* the schema cut down to the field every category has
SummaryOnly == {"isi_ringkas"}

\* "tgl" in field or "tanggal" in field
IsDateField(field) == field = "tgl_surat"

\* the value of a key of the backend's JSON object: the key is missing, null,
\* "", a non-empty string, or a value that is not a string (a number, a list)
JsonValues == {"missing", "null", "empty", "text", "nonstring"}

\* parsed.get(key): None for a missing key and for null
Get(v) == IF v \in {"missing", "null"} THEN "none" ELSE v

\* parsed.get(key, ""): "" for a missing key, None for null
GetOrEmpty(v) == IF v = "missing" THEN "empty" ELSE Get(v)

\* a confidence that is None
None == -1

FieldResult(value, confidence) == [value |-> value, confidence |-> confidence]

\* "0.85 if extracted_fields[field] else 0.50" (process.py 187-188)
UnifiedConfidence(value) == IF Truthy(value) THEN 85 ELSE 50

\* AutoFieldFiller._parse_gemini_response for one field of a JSON object
ParsedField(v) ==
    IF Get(v) # "none"
    THEN FieldResult(IF v = "nonstring" THEN "text" ELSE v, 85)
    ELSE FieldResult("none", 0)

\* AutoFieldFiller._extract_from_malformed_json for one field: the
\* "field": "value" pattern matched (the value stripped) or not
MalformedOutcomes ==
    {FieldResult("text", 60), FieldResult("empty", 60), FieldResult("none", 0)}

\* AutoFieldFiller._extract_single_field for one field of the pipeline's text
SingleFieldOutcomes(field) ==
    IF IsDateField(field)
    THEN {FieldResult("text", 60), FieldResult("text", 45), FieldResult("none", 0)}
    ELSE {FieldResult("text", 55), FieldResult("empty", 55), FieldResult("none", 0)}

RECURSIVE SumOver(_, _)
\* sum(values)
SumOver(f, keys) ==
    IF keys = {} THEN 0
    ELSE LET k == CHOOSE k \in keys : TRUE IN f[k] + SumOver(f, keys \ {k})

\* variant: the null entries count in the divisor
calculate_confidence_average_AllKeys(confidences) ==
    IF DOMAIN confidences = {} THEN [num |-> 0, den |-> 1]
    ELSE LET values == {k \in DOMAIN confidences : confidences[k] # None} IN
         [num |-> SumOver(confidences, values), den |-> Cardinality(DOMAIN confidences)]

\* calculate_confidence_average: the mean as the fraction num / den of percents
calculate_confidence_average(confidences) ==
    IF DOMAIN confidences = {} THEN [num |-> 0, den |-> 1]
    ELSE LET values == {k \in DOMAIN confidences : confidences[k] # None} IN
         IF values # {}
         THEN [num |-> SumOver(confidences, values), den |-> Cardinality(values)]
         ELSE [num |-> 0, den |-> 1]

\* [field for field, conf in field_confidences.items() if conf < 0.75]
low_confidence_fields(confidences) ==
    {field \in DOMAIN confidences : confidences[field] < 75}

\* variant: two low-confidence fields already require a review
RequiresManualReview_AtLeast(confidences) ==
    LET overall == calculate_confidence_average(confidences) IN
      \/ overall.num < CONFIDENCE_MEDIUM * overall.den
      \/ Cardinality(low_confidence_fields(confidences)) >= 2

\* overall_confidence < CONFIDENCE_MEDIUM or len(low_confidence_fields) > 2
RequiresManualReview(confidences) ==
    LET overall == calculate_confidence_average(confidences) IN
      \/ overall.num < CONFIDENCE_MEDIUM * overall.den
      \/ Cardinality(low_confidence_fields(confidences)) > 2

\* field_confidences["isi_ringkas"] = summary_confidence
WithSummary(confidences, confidence) ==
    [field \in DOMAIN confidences \cup {"isi_ringkas"} |->
        IF field = "isi_ringkas" THEN confidence ELSE confidences[field]]

\* ExtractedData(...) accepts a string or None for every field
ValidExtractedData(summary, fields) ==
    /\ summary # "nonstring"
    /\ \A field \in DOMAIN fields \ {"isi_ringkas"} : fields[field] # "nonstring"

(* ---------------- process_surat ---------------- *)
\* an error response built by format_error_response
ErrorResponse(c, step, error_type, text) ==
    /\ pc' = "done"
    /\ status' = "error"
    /\ code' = c
    /\ detail' = [step_failed |-> step, error_type |-> error_type]
    /\ message' = text

\* outcomes of the validation step besides the API-key check, in its order
ValidationOutcomes == {"ok", "INVALID_CATEGORY", "INVALID_FILE", "FILE_TOO_LARGE", "raise"}
\* outcomes of saving and preprocessing the image
PreprocessOutcomes == {"ok", "failed", "raise"}
\* outcomes of writing ocr_raw.txt
WriteOutcomes == {"ok", "raise"}
\* outcomes of storing the surat rows
StoreOutcomes == {"ok", "raise"}

\* outcomes of TextSummarizer._regex_summarize on a non-blank text
RegexSummaries ==
    {[summary |-> "text", confidence |-> 60], [summary |-> "empty", confidence |-> 60],
     [summary |-> "text", confidence |-> 50], [summary |-> "text", confidence |-> 40]}

\* steps 1 and 2: validation, save and preprocess; then the first operation
Submit ==
    /\ pc \in {"idle", "done"}
    /\ \E use_optimized \in BOOLEAN, v \in ValidationOutcomes, p \in PreprocessOutcomes :
         /\ mode' = IF use_optimized THEN "unified" ELSE "legacy"
         /\ IF v \in {"INVALID_CATEGORY", "INVALID_FILE", "FILE_TOO_LARGE"}
            THEN /\ ErrorResponse(v, "none", "none", "fixed")
                 /\ steps_completed' = <<>>
                 /\ phase' = "none"
            ELSE IF v = "raise"
            THEN /\ ErrorResponse("UNKNOWN_ERROR", "none", "none", "exception_text")
                 /\ steps_completed' = <<>>
                 /\ phase' = "none"
            ELSE IF ~api_key
            THEN /\ ErrorResponse("GEMINI_CONFIG_ERROR", "none", "none", "fixed")
                 /\ steps_completed' = <<>>
                 /\ phase' = "none"
            ELSE IF p = "failed"
            THEN /\ ErrorResponse("OCR_FAILED", "preprocessing", "none", "fixed")
                 /\ steps_completed' = <<"validation">>
                 /\ phase' = "none"
            ELSE IF p = "raise"
            THEN /\ ErrorResponse("UNKNOWN_ERROR", "none", "none", "exception_text")
                 /\ steps_completed' = <<"validation">>
                 /\ phase' = "none"
            ELSE /\ pc' = IF use_optimized THEN "unified_extract" ELSE "ocr"
                 /\ steps_completed' = <<"validation", "preprocessing">>
                 /\ phase' = "start"
                 /\ status' = "none"
                 /\ code' = "none"
                 /\ detail' = NoDetail
                 /\ message' = "none"
    /\ attempt' = 0
    /\ delay' = 0
    /\ waits' = <<>>
    /\ callInv' = 0
    /\ callRecs' = 0
    /\ recFailed' = FALSE
    /\ lastMsg' = {}
    /\ lastClass' = "none"
    /\ res' = NoResult
    /\ invTotal' = 0
    /\ calls' = <<>>
    /\ recs' = 0
    /\ recCost' = 0
    /\ callTokens' = [input |-> 0, output |-> 0]
    /\ raw_text' = "empty"
    /\ isi_ringkas' = "empty"
    /\ summary_confidence' = 85
    /\ steps_failed' = <<>>
    /\ total_tokens' = [input |-> 0, output |-> 0]
    /\ ran' = {}
    /\ extracted_fields' = <<>>
    /\ field_confidences' = <<>>
    /\ requires_manual_review' = FALSE
    /\ UNCHANGED envVars

\* unified_extract / extract_text_from_image up to _call_with_retry
BeginExtraction ==
    /\ pc \in {"unified_extract", "ocr"}
    /\ phase = "start"
    /\ IF available
       THEN StartCall
       ELSE /\ phase' = "returned"
            /\ res' = FailureResult("GEMINI_CONFIG_ERROR",
                                    IF pc = "ocr" THEN "Gemini API not configured" ELSE "none")
            /\ UNCHANGED <<attempt, delay, waits, callInv, callRecs, recFailed,
                           lastMsg, lastClass, calls>>
    /\ UNCHANGED <<pc, envVars, mode, invTotal, recs, recCost, callTokens, raw_text, isi_ringkas,
                   summary_confidence, steps_completed, steps_failed, total_tokens,
                   ran, status, code, detail, outVars>>

\* lines 316-484: confidence scoring, kode matching, storing, the response
Finalize(completed, failed, ranBefore, summary, fields, confidences) ==
    /\ pc' = "done"
    /\ phase' = "none"
    /\ steps_completed' = Append(completed, "validation")
    /\ steps_failed' = failed
    /\ detail' = NoDetail
    /\ IF ValidExtractedData(summary, fields)
       THEN /\ extracted_fields' = fields
            /\ field_confidences' = WithSummary(confidences, summary_confidence)
            /\ requires_manual_review' =
                  RequiresManualReview(WithSummary(confidences, summary_confidence))
            /\ \E db \in StoreOutcomes :
                 ran' = ranBefore \cup {"aggregate", "store_surat"}
                          \cup (IF kode_enabled THEN {"kode_match"} ELSE {})
                          \cup (IF db = "ok" THEN {"surat_stored"} ELSE {})
            /\ status' = IF failed # <<>> THEN "partial_success" ELSE "success"
            /\ code' = "none"
            /\ message' = IF failed # <<>> THEN "fallback_steps" ELSE "none"
       ELSE \* the ValidationError of ExtractedData(...) (lines 359-363) leaves
            \* process_surat; global_exception_handler (main.py 79-93) answers
            /\ ran' = ranBefore \cup {"aggregate"}
                          \cup (IF kode_enabled THEN {"kode_match"} ELSE {})
            /\ status' = "error"
            /\ code' = "INTERNAL_SERVER_ERROR"
            /\ \E is_production \in BOOLEAN :
                 message' = IF is_production THEN "fixed" ELSE "exception_text"
            /\ UNCHANGED <<extracted_fields, field_confidences, requires_manual_review>>

\* an early "return JSONResponse(...)" with an error
Abort(c, step, error_type, text) ==
    /\ ErrorResponse(c, step, error_type, text)
    /\ phase' = "none"
    /\ UNCHANGED <<steps_completed, steps_failed, ran, extracted_fields,
                   field_confidences, requires_manual_review>>

AddTokens(tokens, input_tokens, output_tokens) ==
    [input |-> tokens.input + input_tokens, output |-> tokens.output + output_tokens]

\* the kinds of a unified response text that hold a JSON object
ObjectKinds == {"obj_missing", "obj_null", "obj_empty", "obj_blank", "obj_text"}

\* parsing of the unified response (gemini_engine.py 384-429): the exception
\* that escapes, or the raw text, summary and fields of the
\* UnifiedExtractionResult; values are the values of the object's field keys
UnifiedParse(data, values) ==
    LET raw == CASE data = "obj_missing" -> "empty"
                 [] data = "obj_null" -> "none"
                 [] data = "obj_empty" -> "empty"
                 [] data = "obj_blank" -> "blank"
                 [] data = "obj_text" -> "text"
                 [] data = "unparseable" -> "text"
                 [] data = "blank" -> "blank"
                 [] OTHER -> "empty"
    IN
    IF data = "nonobject"
    THEN [raised |-> TRUE, raw_text |-> "none", isi_ringkas |-> "none", fields |-> <<>>]
    ELSE IF data \in ObjectKinds
    THEN [raised |-> FALSE, raw_text |-> raw,
          isi_ringkas |-> GetOrEmpty(values["isi_ringkas"]),
          fields |-> [field \in DOMAIN values |-> Get(values[field])]]
    ELSE [raised |-> FALSE, raw_text |-> raw, isi_ringkas |-> raw, fields |-> <<>>]

\* variant: a failed unified extraction continues with the legacy steps
UnifiedFailure_Legacy ==
    /\ pc' = "ocr"
    /\ phase' = "start"
    /\ UNCHANGED <<status, code, detail, outVars, steps_completed, steps_failed, ran>>

\* "if not unified_result.success": the submission ends here (process.py 167-180)
UnifiedFailure ==
    Abort("OCR_FAILED", "unified_extract", res.error, "fixed")

\* use_optimized branch after unified_extract returned (process.py 165-225)
AfterUnified(schema) ==
    /\ pc = "unified_extract"
    /\ phase = "returned"
    /\ IF ~res.success
       THEN /\ UnifiedFailure
            /\ UNCHANGED <<raw_text, isi_ringkas, total_tokens>>
       ELSE \E values \in [schema -> JsonValues] :
            LET u == UnifiedParse(res.data, values) IN
            IF u.raised
            THEN /\ Abort("OCR_FAILED", "none", "none", "exception_text")
                 /\ UNCHANGED <<raw_text, isi_ringkas, total_tokens>>
            ELSE /\ raw_text' = u.raw_text
                 /\ isi_ringkas' = u.isi_ringkas
                 /\ total_tokens' =
                       AddTokens(total_tokens, res.input_tokens, res.output_tokens)
                 /\ IF u.raw_text \in {"none", "nonstring"}
                    THEN Abort("OCR_FAILED", "none", "none", "exception_text")
                    ELSE IF IsBlank(u.raw_text)
                    THEN Abort("NO_TEXT_EXTRACTED", "none", "none", "fixed")
                    ELSE \E w \in WriteOutcomes :
                           IF w = "raise"
                           THEN Abort("OCR_FAILED", "none", "none", "exception_text")
                           ELSE Finalize(steps_completed \o <<"ocr", "summarization", "auto_fill">>,
                                         steps_failed, ran, u.isi_ringkas, u.fields,
                                         [field \in DOMAIN u.fields |->
                                             UnifiedConfidence(u.fields[field])])
    /\ EndCall
    /\ UNCHANGED <<envVars, mode, invTotal, calls, recs, recCost, callTokens, summary_confidence>>

\* legacy step 3 after extract_text_from_image returned (process.py 230-277)
AfterOcr ==
    /\ pc = "ocr"
    /\ phase = "returned"
    /\ IF ~res.success
       THEN /\ Abort("OCR_FAILED", "ocr", res.error, "fixed")
            /\ UNCHANGED <<raw_text, total_tokens>>
       ELSE LET text == IF Truthy(res.data) THEN res.data ELSE "empty" IN
            /\ raw_text' = text
            /\ IF IsBlank(text)
               THEN /\ Abort("NO_TEXT_EXTRACTED", "none", "none", "fixed")
                    /\ UNCHANGED total_tokens
               ELSE /\ total_tokens' =
                          AddTokens(total_tokens, res.input_tokens, res.output_tokens)
                    /\ \E w \in WriteOutcomes :
                         IF w = "raise"
                         THEN Abort("OCR_FAILED", "none", "none", "exception_text")
                         ELSE /\ pc' = "summarization"
                              /\ phase' = "start"
                              /\ steps_completed' = Append(steps_completed, "ocr")
                              /\ UNCHANGED <<steps_failed, ran, status, code, detail, outVars>>
    /\ EndCall
    /\ UNCHANGED <<envVars, mode, invTotal, calls, recs, recCost, callTokens, isi_ringkas, summary_confidence>>

\* TextSummarizer._regex_summarize as the result of summarize (lines 57-69)
SummaryFallback ==
    /\ \E r \in RegexSummaries :
         /\ isi_ringkas' = r.summary
         /\ summary_confidence' = r.confidence
    /\ steps_failed' = Append(steps_failed, "summarization")
    /\ ran' = ran \cup {"summary_fallback"}
    /\ pc' = "auto_fill"
    /\ phase' = "start"
    /\ UNCHANGED <<steps_completed, total_tokens>>

\* legacy step 4 up to the backend call (text_summarizer.py 29-39)
BeginSummarization ==
    /\ pc = "summarization"
    /\ phase = "start"
    /\ IF ~Truthy(raw_text) \/ IsBlank(raw_text)
       THEN /\ isi_ringkas' = "empty"
            /\ summary_confidence' = 0
            /\ steps_failed' = Append(steps_failed, "summarization")
            /\ pc' = "auto_fill"
            /\ phase' = "start"
            /\ UNCHANGED <<attempt, delay, waits, callInv, callRecs, recFailed,
                           lastMsg, lastClass, res, calls, ran, steps_completed,
                           total_tokens>>
       ELSE IF available
       THEN /\ StartCall
            /\ UNCHANGED <<pc, isi_ringkas, summary_confidence, steps_failed, ran,
                           steps_completed, total_tokens>>
       ELSE /\ SummaryFallback
            /\ UNCHANGED <<attempt, delay, waits, callInv, callRecs, recFailed,
                           lastMsg, lastClass, res, calls>>
    /\ UNCHANGED <<envVars, mode, invTotal, recs, recCost, callTokens, raw_text, status, code, detail, outVars>>

\* legacy step 4 after summarize_text returned (text_summarizer.py 41-69,
\* process.py 282-289)
AfterSummarization ==
    /\ pc = "summarization"
    /\ phase = "returned"
    /\ IF res.success /\ Truthy(res.data)
       THEN /\ isi_ringkas' = IF res.data = "blank" THEN "empty" ELSE "text"
            /\ summary_confidence' = 85
            /\ total_tokens' =
                  AddTokens(total_tokens, res.input_tokens + res.output_tokens, 0)
            /\ steps_completed' = Append(steps_completed, "summarization")
            /\ pc' = "auto_fill"
            /\ phase' = "start"
            /\ UNCHANGED <<steps_failed, ran>>
       ELSE SummaryFallback
    /\ EndCall
    /\ UNCHANGED <<envVars, mode, invTotal, calls, recs, recCost, callTokens, raw_text, status, code, detail, outVars>>

\* AutoFieldFiller._parse_gemini_response: "fields" for a JSON object,
\* "recovered" through _extract_from_malformed_json, "None" otherwise
ParseGeminiResponse(data) ==
    CASE data = "object" -> "fields"
      [] data \in {"malformed", "blank"} -> "recovered"
      [] OTHER -> "None"

\* variant: a failed field extraction ends the submission
PatternFallback_Abort(schema) ==
    /\ Abort("GEMINI_API_ERROR", "auto_fill", res.error, "fixed")
    /\ UNCHANGED total_tokens

\* the FieldResult of every field, by the way the fields were obtained
ParsedFields(schema) ==
    {[field \in schema |-> ParsedField(values[field])] : values \in [schema -> JsonValues]}

RecoveredFields(data, schema) ==
    IF data = "blank"
    THEN {[field \in schema |-> FieldResult("none", 0)]}
    ELSE [schema -> MalformedOutcomes]

\* AutoFieldFiller._regex_extract
RegexFields(schema) ==
    {results \in [schema -> UNION {SingleFieldOutcomes(field) : field \in schema}] :
        \A field \in schema : results[field] \in SingleFieldOutcomes(field)}

FieldValues(results) == [field \in DOMAIN results |-> results[field].value]

FieldConfidences(results) == [field \in DOMAIN results |-> results[field].confidence]

\* AutoFieldFiller._regex_extract as the result of extract_fields (lines 165-176),
\* then the rest of process_surat
PatternFallback(schema) ==
    /\ \E results \in RegexFields(schema) :
         Finalize(steps_completed, Append(steps_failed, "auto_fill"),
                  ran \cup {"pattern_fallback"}, isi_ringkas,
                  FieldValues(results), FieldConfidences(results))
    /\ UNCHANGED total_tokens

\* legacy step 5 up to the backend call (auto_filler.py 139-147)
BeginAutoFill(schema) ==
    /\ pc = "auto_fill"
    /\ phase = "start"
    /\ IF available
       THEN /\ StartCall
            /\ UNCHANGED <<pc, steps_completed, steps_failed, ran, status, code, detail,
                           outVars, total_tokens>>
       ELSE /\ PatternFallback(schema)
            /\ UNCHANGED <<attempt, delay, waits, callInv, callRecs, recFailed,
                           lastMsg, lastClass, res, calls>>
    /\ UNCHANGED <<envVars, mode, invTotal, recs, recCost, callTokens, raw_text, isi_ringkas,
                   summary_confidence>>

\* legacy step 5 after extract_fields returned (auto_filler.py 149-176,
\* process.py 299-310), then the rest of process_surat
AfterAutoFill(schema) ==
    /\ pc = "auto_fill"
    /\ phase = "returned"
    /\ IF res.success /\ Truthy(res.data) /\ ParseGeminiResponse(res.data) # "None"
       THEN /\ total_tokens' =
                  AddTokens(total_tokens, res.input_tokens + res.output_tokens, 0)
            /\ \E results \in (IF ParseGeminiResponse(res.data) = "fields"
                               THEN ParsedFields(schema)
                               ELSE RecoveredFields(res.data, schema)) :
                 Finalize(Append(steps_completed, "auto_fill"), steps_failed, ran,
                          isi_ringkas, FieldValues(results), FieldConfidences(results))
       ELSE PatternFallback(schema)
    /\ EndCall
    /\ UNCHANGED <<envVars, mode, invTotal, calls, recs, recCost, callTokens, raw_text, isi_ringkas,
                   summary_confidence>>

Next ==
    \/ Submit
    \/ BeginExtraction
    \/ AttemptSucceeds(NoTokens)
    \/ AttemptFails(ClassMessages)
    \/ AttemptRecordFails
    \/ WakeUp
    \/ AfterUnified(SummaryOnly)
    \/ AfterOcr
    \/ BeginSummarization
    \/ AfterSummarization
    \/ BeginAutoFill(SummaryOnly)
    \/ AfterAutoFill(SummaryOnly)

Spec == Init /\ [][Next]_vars

\* the pipeline is sequential code: every step that can be taken is taken
FairSpec == Spec /\ WF_vars(Next)

(* ---------------- the pipeline with a whole schema ---------------- *)
\* a message that ends a call at once and one that is retried
FieldMessages == {{"api key"}, {"timeout"}}

FieldNext ==
    \/ Submit
    \/ BeginExtraction
    \/ AttemptSucceeds(NoTokens)
    \/ AttemptFails(FieldMessages)
    \/ WakeUp
    \/ AfterUnified(Fields)
    \/ AfterOcr
    \/ BeginSummarization
    \/ AfterSummarization
    \/ BeginAutoFill(Fields)
    \/ AfterAutoFill(Fields)

FieldSpec == Init /\ [][FieldNext]_vars

(* ---------------- the pipeline with token counts ---------------- *)
\* the backend call succeeds with any token counts or ends at once
UsageMessages == {{"api key"}}

UsageNext ==
    \/ Submit
    \/ BeginExtraction
    \/ AttemptSucceeds(Tokens)
    \/ AttemptFails(UsageMessages)
    \/ AfterUnified(SummaryOnly)
    \/ AfterOcr
    \/ BeginSummarization
    \/ AfterSummarization
    \/ BeginAutoFill(SummaryOnly)
    \/ AfterAutoFill(SummaryOnly)

UsageSpec == Init /\ [][UsageNext]_vars

(* ---------------- two submissions on the server's event loop ---------------- *)
\* process_surat is a coroutine ("async def", process.py 36) whose only await
\* is file.read() (line 80); the backend calls and time.sleep (gemini_engine.py
\* 137, 151, 177, 191) are blocking calls made on the event loop's thread, so
\* the loop is free only while no submission is between read and return
LoopFree == pc \in {"idle", "done"}

\* the request of a second submission reaches the server
OtherArrives ==
    /\ other \in {"absent", "done"}
    /\ other' = "queued"
    /\ UNCHANGED <<pc, callVars, api_key, available, kode_enabled, input, output,
                   refVars, subVars, outVars>>

\* the event loop runs the second submission's process_surat to its return
OtherRuns ==
    /\ other = "queued"
    /\ LoopFree
    /\ other' = "done"
    /\ UNCHANGED <<pc, callVars, api_key, available, kode_enabled, input, output,
                   refVars, subVars, outVars>>

LoopNext ==
    \/ Submit
    \/ BeginExtraction
    \/ AttemptSucceeds(NoTokens)
    \/ AttemptFails(FieldMessages)
    \/ WakeUp
    \/ AfterUnified(SummaryOnly)
    \/ AfterOcr
    \/ BeginSummarization
    \/ AfterSummarization
    \/ BeginAutoFill(SummaryOnly)
    \/ AfterAutoFill(SummaryOnly)
    \/ OtherArrives
    \/ OtherRuns

LoopSpec == Init /\ [][LoopNext]_vars

(* ---------------- one function on its own ---------------- *)
\* the state before a function is applied to one of the inputs
Applying(inputs) ==
    /\ pc = "apply"
    /\ input \in inputs
    /\ output = "none"
    /\ NoReference
    /\ mode = "unified"
    /\ api_key = TRUE
    /\ available = TRUE
    /\ kode_enabled = FALSE
    /\ other = "absent"
    /\ phase = "none"
    /\ attempt = 0
    /\ delay = 0
    /\ waits = <<>>
    /\ callInv = 0
    /\ callRecs = 0
    /\ recFailed = FALSE
    /\ lastMsg = {}
    /\ lastClass = "none"
    /\ res = NoResult
    /\ invTotal = 0
    /\ calls = <<>>
    /\ recs = 0
    /\ recCost = 0
    /\ callTokens = [input |-> 0, output |-> 0]
    /\ raw_text = "empty"
    /\ isi_ringkas = "empty"
    /\ summary_confidence = 85
    /\ steps_completed = <<>>
    /\ steps_failed = <<>>
    /\ total_tokens = [input |-> 0, output |-> 0]
    /\ ran = {}
    /\ status = "none"
    /\ code = "none"
    /\ detail = NoDetail
    /\ message = "none"
    /\ extracted_fields = <<>>
    /\ field_confidences = <<>>
    /\ requires_manual_review = FALSE

\* the function returns
Apply(F(_)) ==
    /\ pc = "apply"
    /\ pc' = "applied"
    /\ output' = F(input)
    /\ UNCHANGED <<callVars, api_key, available, kode_enabled, other, input,
                   refVars, subVars, outVars>>

(* ---------------- confidence scoring on its own ---------------- *)
ScoreFields == Fields \cup {"kode"}

\* confidences in percent, the thresholds and their neighbours among them
ConfidenceValues == {0, 45, 59, 60, 74, 75, 85}

\* field_confidences and summary_confidence when line 316 is reached
ScoreInputs ==
    {[confidences |-> c, summary_confidence |-> sc] :
        c \in UNION {[keys -> ConfidenceValues] : keys \in SUBSET ScoreFields},
        sc \in ConfidenceValues}

\* "Validation & Confidence Scoring" (process.py 316-327)
Scoring(in) ==
    LET confidences == WithSummary(in.confidences, in.summary_confidence) IN
    [field_confidences |-> confidences,
     overall_confidence |-> calculate_confidence_average(confidences),
     low_confidence_fields |-> low_confidence_fields(confidences),
     requires_manual_review |-> RequiresManualReview(confidences)]

ScoreInit == Applying(ScoreInputs)

ScoreNext == Apply(Scoring)

ScoreSpec == ScoreInit /\ [][ScoreNext]_vars

(* ---------------- calculate_confidence_average on its own ---------------- *)
\* the values of a confidences mapping: None or a confidence in percent
AverageValues == {None, 0, 50, 60, 85}

AverageInputs == UNION {[keys -> AverageValues] : keys \in SUBSET ScoreFields}

AverageInit == Applying(AverageInputs)

AverageNext == Apply(calculate_confidence_average)

AverageSpec == AverageInit /\ [][AverageNext]_vars

(* ---------------- parsing of the unified response, piece by piece ---------------- *)
\* the pieces of a response text: a brace outside a string literal, the member
\* list of the object ('"raw_text": "...", "isi_ringkas": "...", ...', no brace
\* in it), a code fence line, words that are not JSON, and a JSON string
\* literal that holds an opening brace ('"{"')
Pieces == {"{", "}", "members", "fence", "words", "string{"}

Texts == UNION {[1..n -> Pieces] : n \in 0..MaxLen}

HasOpen(piece) == piece \in {"{", "string{"}

HasClose(piece) == piece = "}"

\* re.search(r'\{[\s\S]*\}', response_text): the span from the first "{" to
\* the last "}" behind it, <<>> when there is none
JsonMatch(text) ==
    LET opens == {i \in 1..Len(text) : HasOpen(text[i])}
        first == CHOOSE i \in opens : \A k \in opens : i <= k
        closes == {j \in 1..Len(text) : HasClose(text[j]) /\ j > first}
        last == CHOOSE j \in closes : \A k \in closes : k <= j
    IN IF opens = {} THEN <<>>
       ELSE IF closes = {} THEN <<>>
       ELSE IF text[first] = "string{"
       THEN <<"{", "quote">> \o SubSeq(text, first + 1, last)
       ELSE SubSeq(text, first, last)

\* json.loads: the kind of the value, or the JSONDecodeError
JsonLoads(text) ==
    IF text = <<"{", "members", "}">> THEN "object"
    ELSE IF text = <<"{", "}">> THEN "empty_object"
    ELSE IF text = <<"string{">> THEN "string"
    ELSE "JSONDecodeError"

\* result.data[:200]
Prefix(text) == SubSeq(text, 1, Min(Len(text), SummaryLimit))

\* the fallback of the except block (gemini_engine.py 414-429)
RawOnly(text) ==
    [raised |-> FALSE, success |-> TRUE, raw_text |-> text,
     isi_ringkas |-> Prefix(text), fields |-> "empty"]

\* gemini_engine.py 384-429 for the response text of a successful call
ParseUnifiedResponse(text) ==
    LET json_match == JsonMatch(text)
        parsed == JsonLoads(IF json_match # <<>> THEN json_match ELSE text)
    IN CASE parsed = "object" ->
              [raised |-> FALSE, success |-> TRUE, raw_text |-> <<"raw_text">>,
               isi_ringkas |-> <<"isi_ringkas">>, fields |-> "values"]
         [] parsed = "empty_object" ->
              [raised |-> FALSE, success |-> TRUE, raw_text |-> <<>>,
               isi_ringkas |-> <<>>, fields |-> "nulls"]
         [] parsed = "string" ->
              \* parsed.get raises AttributeError, which is not caught
              [raised |-> TRUE, success |-> FALSE, raw_text |-> <<>>,
               isi_ringkas |-> <<>>, fields |-> "empty"]
         [] OTHER -> RawOnly(text)

ParseInit == Applying(Texts)

ParseNext == Apply(ParseUnifiedResponse)

ParseSpec == ParseInit /\ [][ParseNext]_vars

(* ---------------- validate_date_format ---------------- *)
\* a date string: its parts and the separator between them
DateString(parts, sep) == [parts |-> parts, sep |-> sep]

\* None as the result of validate_date_format
NoDate == DateString(<<>>, "none")

DateParts == {"2026", "28", "31", "1", "01", "02", "26", "Januari", "January", "Jan"}

Separators == {"-", "/", " "}

\* "", "soon" and the strings of three parts
DateStrings ==
    {DateString(<<>>, " "), DateString(<<"soon">>, " ")}
        \cup {DateString(parts, sep) : parts \in [1..3 -> DateParts], sep \in Separators}

\* what a directive of strptime reads from a part, 0 when it does not match:
\* %Y takes four digits, %m and %d one or two, %B and %b the month names of
\* the C locale, which the program never changes
Directive(directive, part) ==
    CASE directive = "%Y" -> (IF part = "2026" THEN 2026 ELSE 0)
      [] directive = "%m" ->
           (IF part \in {"1", "01"} THEN 1 ELSE IF part = "02" THEN 2 ELSE 0)
      [] directive = "%d" ->
           (CASE part \in {"1", "01"} -> 1
              [] part = "02" -> 2
              [] part = "26" -> 26
              [] part = "28" -> 28
              [] part = "31" -> 31
              [] OTHER -> 0)
      [] directive = "%B" -> (IF part = "January" THEN 1 ELSE 0)
      [] directive = "%b" -> (IF part = "Jan" THEN 1 ELSE 0)

\* the days of a month of 2026
DaysIn(month) == IF month = 2 THEN 28 ELSE 31

\* the list "formats" of validate_date_format, in its order
formats ==
    << [sep |-> "-", directives |-> <<"%Y", "%m", "%d">>],
       [sep |-> "/", directives |-> <<"%d", "%m", "%Y">>],
       [sep |-> "-", directives |-> <<"%d", "%m", "%Y">>],
       [sep |-> " ", directives |-> <<"%d", "%B", "%Y">>],
       [sep |-> " ", directives |-> <<"%d", "%b", "%Y">>],
       [sep |-> "/", directives |-> <<"%Y", "%m", "%d">>] >>

\* datetime.strptime(date_str.strip(), fmt); ok is FALSE for a ValueError
strptime(date, fmt) ==
    LET read(directives) ==
            LET i == CHOOSE i \in 1..3 : fmt.directives[i] \in directives IN
            Directive(fmt.directives[i], date.parts[i])
        failed == [ok |-> FALSE, year |-> 0, month |-> 0, day |-> 0]
    IN IF Len(date.parts) # 3 \/ date.sep # fmt.sep THEN failed
       ELSE LET year == read({"%Y"})
                month == read({"%m", "%B", "%b"})
                day == read({"%d"})
            IN IF year = 0 \/ month = 0 \/ day = 0 THEN failed
               ELSE IF day > DaysIn(month) THEN failed
               ELSE [ok |-> TRUE, year |-> year, month |-> month, day |-> day]

\* two digits with a leading zero
Pad2(n) ==
    CASE n = 1 -> "01" [] n = 2 -> "02" [] n = 26 -> "26" [] n = 28 -> "28" [] n = 31 -> "31"

\* parsed.strftime("%Y-%m-%d")
strftime(parsed) == DateString(<<"2026", Pad2(parsed.month), Pad2(parsed.day)>>, "-")

RECURSIVE TryFormats(_, _)
\* the loop over formats from the i-th format on
TryFormats(date, i) ==
    IF i > Len(formats) THEN NoDate
    ELSE LET parsed == strptime(date, formats[i]) IN
         IF parsed.ok THEN strftime(parsed) ELSE TryFormats(date, i + 1)

validate_date_format(date) ==
    IF date.parts = <<>> THEN NoDate ELSE TryFormats(date, 1)

DateInit == Applying(DateStrings)

DateNext == Apply(validate_date_format)

DateSpec == DateInit /\ [][DateNext]_vars

(* ---------------- AutoFieldFiller._regex_extract ---------------- *)
\* the words of an OCR text; a text is its words joined by blanks
Words == {"Nomor", "Surat", ":", "123/ABC/2026", "Tanggal", "28/01/2026", "28 Januari 2026"}

MaxWords == 4

PatternTexts == UNION {[1..n -> Words] : n \in 0..MaxWords}

PatternFields == {"nomor_surat", "tgl_surat"}

\* re.search found nothing
NoMatch == "no match"

\* the lowest index of a set of indexes, 0 for the empty set
First(S) == IF S = {} THEN 0 ELSE CHOOSE i \in S : \A k \in S : i <= k

\* the first word after position i that is not a colon: [.:\s]* skips
\* blanks and colons between a label and its value
NextWord(text, i) == First({j \in (i + 1)..Len(text) : text[j] # ":"})

\* the longest prefix of a word within [A-Za-z0-9\-/\.]
ClassPrefix(word) == IF word = "28 Januari 2026" THEN "28" ELSE word

\* what the k-th pattern of PATTERNS[field] captures in the text
Rule(field, k, text) ==
    CASE field = "nomor_surat" /\ k = 1 ->
           \* no(?:mor)? matches the first "Nomor"; without a later word the
           \* engine backtracks to "No" and captures "mor"
           LET i == First({i \in 1..Len(text) : text[i] = "Nomor"})
               j == NextWord(text, i)
           IN IF i = 0 THEN NoMatch
              ELSE IF j = 0 THEN "mor" ELSE ClassPrefix(text[j])
      [] field = "nomor_surat" /\ k = 2 ->
           LET i == First({i \in 1..Len(text) : text[i] \in {"123/ABC/2026", "28/01/2026"}})
           IN IF i = 0 THEN NoMatch ELSE text[i]
      [] field = "tgl_surat" /\ k = 1 ->
           LET dated(i) == /\ text[i] = "Tanggal"
                           /\ NextWord(text, i) # 0
                           /\ text[NextWord(text, i)] \in {"28/01/2026", "28 Januari 2026"}
               i == First({i \in 1..Len(text) : dated(i)})
           IN IF i = 0 THEN NoMatch ELSE text[NextWord(text, i)]
      [] field = "tgl_surat" /\ k = 2 ->
           LET i == First({i \in 1..Len(text) : text[i] = "28 Januari 2026"})
           IN IF i = 0 THEN NoMatch ELSE text[i]
      [] field = "tgl_surat" /\ k = 3 ->
           LET i == First({i \in 1..Len(text) : text[i] = "28/01/2026"})
           IN IF i = 0 THEN NoMatch ELSE text[i]
      [] OTHER -> NoMatch

\* the patterns of a field the other way round
PATTERNS_Reversed(field) ==
    IF field = "nomor_surat" THEN <<3, 2, 1>>
    ELSE IF field = "tgl_surat" THEN <<4, 3, 2, 1>>
    ELSE <<>>

\* the patterns of a field, in the order of the PATTERNS table
PATTERNS(field) ==
    IF field = "nomor_surat" THEN <<1, 2, 3>>
    ELSE IF field = "tgl_surat" THEN <<1, 2, 3, 4>>
    ELSE <<>>

\* a captured value as a date string
DateOf(value) ==
    CASE value = "28/01/2026" -> DateString(<<"28", "01", "2026">>, "/")
      [] value = "28 Januari 2026" -> DateString(<<"28", "Januari", "2026">>, " ")
      [] value = "2026-01-28" -> DateString(<<"2026", "01", "28">>, "-")
      [] OTHER -> DateString(<<value>>, " ")

\* a date string as a value
ToText(date) ==
    CHOOSE value \in {"28/01/2026", "28 Januari 2026", "2026-01-28"} : DateOf(value) = date

RECURSIVE TryPatterns(_, _, _)
\* the loop over PATTERNS[field] from the i-th pattern on
TryPatterns(text, field, i) ==
    IF i > Len(PATTERNS(field)) THEN FieldResult("none", 0)
    ELSE LET value == Rule(field, PATTERNS(field)[i], text) IN
         IF value = NoMatch THEN TryPatterns(text, field, i + 1)
         ELSE IF IsDateField(field)
              THEN LET normalized == validate_date_format(DateOf(value)) IN
                   IF normalized # NoDate
                   THEN FieldResult(ToText(normalized), 60)
                   ELSE FieldResult(value, 45)
              ELSE FieldResult(value, 55)

extract_single_field(text, field) == TryPatterns(text, field, 1)

regex_extract(in) ==
    [field \in in.required_fields |-> extract_single_field(in.text, field)]

RegexInputs ==
    [text : PatternTexts, required_fields : SUBSET PatternFields \ {{}}]

RegexInit == Applying(RegexInputs)

RegexNext == Apply(regex_extract)

RegexSpec == RegexInit /\ [][RegexNext]_vars

(* ---------------- ImagePreprocessor.preprocess ---------------- *)
MIN_DPI == 150

TARGET_DPI == 300

MAX_DIMENSION == 2048

GEMINI_MAX_DIMENSION == 800

\* widths and heights of source images, in pixels
Dimensions == {1, 200, 400, 600, 800, 801, 1251, 1470, 1800, 3000, 4000}

Images == [width : Dimensions, height : Dimensions]

Shape(width, height) == [width |-> width, height |-> height]

_estimate_dpi(image) ==
    IF image.width >= 2480 \/ image.height >= 3508 THEN 300
    ELSE IF image.width >= 1654 \/ image.height >= 2339 THEN 200
    ELSE IF image.width >= 1240 \/ image.height >= 1754 THEN 150
    ELSE 72

\* a scale factor num / den
Ratio(num, den) == [num |-> num, den |-> den]

\* min(a, b) of two scale factors
MinRatio(a, b) == IF a.num * b.den <= b.num * a.den THEN a ELSE b

Max(a, b) == IF a >= b THEN a ELSE b

\* the products x * (num / den) of whole value that IEEE double arithmetic
\* rounds to just below that value, among the products of Dimensions
RoundedBelow == {<<1251, 800, 1251>>, <<1470, 2048, 1470>>}

\* int(x * scale): the quotient is rounded to a double, the product is
\* rounded again and int() truncates it
TruncatedProduct(x, scale) ==
    LET exact == (x * scale.num) \div scale.den IN
    IF <<x, scale.num, scale.den>> \in RoundedBelow THEN exact - 1 ELSE exact

\* cv2.resize(image, (new_width, new_height)); it raises for an empty size
Resizable(shape) == shape.width > 0 /\ shape.height > 0

\* the upscaling of preprocess: the size of the archival image
Upscaled(image) ==
    LET scale_factor == MinRatio(Ratio(TARGET_DPI, Max(_estimate_dpi(image), 72)), Ratio(3, 1))
        new_width == TruncatedProduct(image.width, scale_factor)
        new_height == TruncatedProduct(image.height, scale_factor)
        capped == MinRatio(Ratio(MAX_DIMENSION, image.width),
                           Ratio(MAX_DIMENSION, image.height))
    IN IF _estimate_dpi(image) >= MIN_DPI THEN image
       ELSE IF new_width > MAX_DIMENSION \/ new_height > MAX_DIMENSION
            THEN Shape(TruncatedProduct(image.width, capped),
                       TruncatedProduct(image.height, capped))
       ELSE Shape(new_width, new_height)

\* the size of the image that _resize_for_gemini returns
_resize_for_gemini(image) ==
    LET scale == MinRatio(Ratio(GEMINI_MAX_DIMENSION, image.width),
                          Ratio(GEMINI_MAX_DIMENSION, image.height))
    IN IF image.width <= GEMINI_MAX_DIMENSION /\ image.height <= GEMINI_MAX_DIMENSION
       THEN image
       ELSE Shape(TruncatedProduct(image.width, scale),
                  TruncatedProduct(image.height, scale))

PreprocessFailed ==
    [success |-> FALSE, error |-> "PREPROCESS_FAILED", original_dpi |-> 0,
     upscaled |-> FALSE, archival |-> Shape(0, 0), transmission |-> Shape(0, 0)]

\* preprocess on an image that loads: the sizes of the two files it writes
preprocess(image) ==
    LET denoised == Upscaled(image)
        gemini_optimized == _resize_for_gemini(denoised)
    IN IF ~Resizable(denoised) \/ ~Resizable(gemini_optimized) THEN PreprocessFailed
       ELSE [success |-> TRUE, error |-> "none",
             original_dpi |-> _estimate_dpi(image),
             upscaled |-> _estimate_dpi(image) < MIN_DPI,
             archival |-> denoised, transmission |-> gemini_optimized]

PreprocessInit == Applying(Images)

PreprocessNext == Apply(preprocess)

PreprocessSpec == PreprocessInit /\ [][PreprocessNext]_vars

(* ---------------- KodeArsipMatcher.match ---------------- *)
\* str.lower() of a word
Lower(word) == IF word = "Rapat" THEN "rapat" ELSE word

\* "word in text" for a text of one word: word is a substring of it
IsSubstring(word, of) ==
    \/ word = of
    \/ word = "at" /\ of \in {"rapat", "surat"}

\* word in text_lower: a word holds no blank, so it occurs in the text
\* when it occurs in one of the words of the text
OccursIn(word, text) == \E i \in 1..Len(text) : IsSubstring(word, Lower(text[i]))

\* the keterangan of a row of ref_klasifikasi, as its words
Descriptions ==
    {<<>>, <<"rapat">>, <<"at">>, <<"Rapat", "dinas">>, <<"dinas", "surat">>, <<"at", "dinas", "at">>}

\* isi_ringkas as its words
Summaries == {<<>>, <<"rapat">>, <<"Rapat", "dinas">>, <<"undangan">>}

MaxRows == 4

\* kode_data: the rows in the order of the table; the kode of a row is its index
Tables == UNION {[1..n -> Descriptions] : n \in 0..MaxRows}

\* sum(1 for word in words if word in text_lower)
Matches(words, text) == Cardinality({i \in 1..Len(words) : OccursIn(Lower(words[i]), text)})

\* min(matches / max(len(words), 1), 1.0) * 0.7, as a fraction
Confidence(matches, total) ==
    IF matches >= Max(total, 1) THEN Ratio(7, 10) ELSE Ratio(matches * 7, Max(total, 1) * 10)

\* a.confidence < b.confidence
Below(a, b) == a.num * b.den < b.num * a.den

KodeCandidate(kode, confidence) == [kode |-> kode, confidence |-> confidence]

RECURSIVE Candidates(_, _, _)
\* the loop over the rows from row i on
Candidates(rows, text, i) ==
    IF i > Len(rows) THEN <<>>
    ELSE LET matches == Matches(rows[i], text)
             rest == Candidates(rows, text, i + 1)
         IN IF matches > 0
            THEN <<KodeCandidate(i, Confidence(matches, Len(rows[i])))>> \o rest
            ELSE rest

\* a sequence without its i-th element
Without(seq, i) == [k \in 1..(Len(seq) - 1) |-> IF k < i THEN seq[k] ELSE seq[k + 1]]

RECURSIVE Sort(_)
\* candidates.sort(key=confidence, reverse=True): stable, highest first
Sort(candidates) ==
    IF candidates = <<>> THEN <<>>
    ELSE LET i == First({k \in 1..Len(candidates) :
                            \A j \in 1..Len(candidates) :
                                ~Below(candidates[k].confidence, candidates[j].confidence)})
         IN <<candidates[i]>> \o Sort(Without(candidates, i))

\* the candidates left in the order of the table
_keyword_match_Unsorted(rows, text) == Candidates(rows, text, 1)

_keyword_match(rows, text) == Sort(Candidates(rows, text, 1))

\* candidates[:3]
FirstThree(candidates) == SubSeq(candidates, 1, Min(3, Len(candidates)))

\* match; <<>> stands for None, and match never returns an empty list
match(in) ==
    IF ~in.enabled THEN <<>>
    ELSE IF ~in.loaded \/ in.kode_data = <<>> THEN <<>>
    ELSE IF in.isi_ringkas = <<>> THEN <<>>
    ELSE FirstThree(_keyword_match(in.kode_data, in.isi_ringkas))

\* kode_data is None when loading failed or found nothing
MatchInputs ==
    {in \in [enabled : BOOLEAN, loaded : BOOLEAN, kode_data : Tables, isi_ringkas : Summaries] :
        ~in.loaded => in.kode_data = <<>>}

MatchInit == Applying(MatchInputs)

MatchNext == Apply(match)

MatchSpec == MatchInit /\ [][MatchNext]_vars

(* ---------------- TextSummarizer._regex_summarize ---------------- *)
MAX_SUMMARY_LENGTH == 200

\* the units of a text: a label word, a colon, a full stop, a word that ends
\* in "re", an upper-case heading of 26 characters, a lower-case phrase of 120
\* characters, a line break; a text is its units joined by blanks
Units == {"Hal", ":", ".", "sore", "CAPS", "BIG", "newline"}

MaxUnits == 4

SummaryTexts == UNION {[1..n -> Units] : n \in 0..MaxUnits}

\* len() of a unit
UnitLength(unit) ==
    CASE unit = "Hal" -> 3
      [] unit = "sore" -> 4
      [] unit = "CAPS" -> 26
      [] unit = "BIG" -> 120
      [] OTHER -> 1

RECURSIVE Length(_)
\* len() of units joined by single blanks
Length(units) ==
    IF units = <<>> THEN 0
    ELSE IF Len(units) = 1 THEN UnitLength(units[1])
    ELSE UnitLength(units[1]) + 1 + Length(Tail(units))

IsInk(unit) == unit # "newline"

\* re.sub(r'\s+', ' ', text).strip(): the runs of white space become one blank
Clean(text) == SelectSeq(text, IsInk)

\* the units that end in perihal, hal, re or subject
Labels == {"Hal", "sore"}

\* the first unit after unit i that is not a colon, Len(text) + 1 without one
AfterColons(text, i) ==
    LET rest == {j \in (i + 1)..Len(text) : text[j] # ":"} IN
    IF rest = {} THEN Len(text) + 1 ELSE First(rest)

\* the first full stop from unit j on, Len(text) + 1 without one
NextStop(text, j) ==
    LET stops == {k \in j..Len(text) : text[k] = "."} IN
    IF stops = {} THEN Len(text) + 1 ELSE First(stops)

\* (?:perihal|hal|re|subject)[:\s]+([^\n.]+) matches at unit i: a blank or a
\* colon follows the label, and one character that is no full stop follows
\* them, which the run of blanks and colons gives back when it holds a colon
LabelMatches(text, i) ==
    /\ text[i] \in Labels
    /\ i < Len(text)
    /\ LET j == AfterColons(text, i) IN
         \/ j <= Len(text) /\ text[j] # "."
         \/ j > i + 1

\* group(1).strip() of the match at unit i: the units up to the next full
\* stop; the blank before a full stop, stripped to ""; or the last colon
Group(text, i) ==
    LET j == AfterColons(text, i) IN
    IF j <= Len(text) /\ text[j] # "." THEN SubSeq(text, j, NextStop(text, j) - 1)
    ELSE IF j <= Len(text) THEN <<>>
    ELSE <<":">>

\* re.split(r'[.!?]\s+', text) cuts at the full stops that a blank follows
Cuts(text) == {k \in 1..(Len(text) - 1) : text[k] = "."}

\* the units at which a sentence starts
Starts(text) == {1} \cup {k + 1 : k \in Cuts(text)}

\* the sentence that starts at unit s, without the blank at its end
Sentence(text, s) ==
    LET cut == First({k \in Cuts(text) : k >= s}) IN
    SubSeq(text, s, IF cut = 0 THEN Len(text) ELSE cut - 1)

\* len(sentence): a sentence that is cut keeps the blank before the full stop
SentenceLength(text, s) ==
    Length(Sentence(text, s))
        + (IF {k \in Cuts(text) : k >= s} # {} /\ Sentence(text, s) # <<>> THEN 1 ELSE 0)

\* re.match(r'^[A-Z\s]+$', sentence)
IsHeading(sentence) ==
    sentence # <<>> /\ \A k \in 1..Len(sentence) : sentence[k] = "CAPS"

\* len(sentence) > 20 and not re.match(...)
IsMeaningful(text, s) ==
    SentenceLength(text, s) > 20 /\ ~IsHeading(Sentence(text, s))

\* a summary: the units it is cut from and its length after [:200]
SummaryResult(units, confidence) ==
    [success |-> TRUE, summary |-> units,
     length |-> Min(Length(units), MAX_SUMMARY_LENGTH),
     confidence |-> confidence, used_fallback |-> TRUE]

_regex_summarize(raw) ==
    LET text == Clean(raw)
        perihal_match == First({i \in 1..Len(text) : LabelMatches(text, i)})
        sentence == First({s \in Starts(text) : IsMeaningful(text, s)})
    IN IF text = <<>> THEN SummaryResult(<<>>, 0)
       ELSE IF perihal_match # 0 THEN SummaryResult(Group(text, perihal_match), 60)
       ELSE IF sentence # 0 THEN SummaryResult(Sentence(text, sentence), 50)
       ELSE SummaryResult(text, 40)

\* TextSummarizer.summarize while the backend is unavailable
summarize(text) ==
    IF Clean(text) = <<>> THEN SummaryResult(<<>>, 0) ELSE _regex_summarize(text)

SummarizeInit == Applying(SummaryTexts)

SummarizeNext == Apply(summarize)

SummarizeSpec == SummarizeInit /\ [][SummarizeNext]_vars

(* ---------------- CATEGORY_SCHEMAS ---------------- *)
\* the fields of every kategori, in the order of the table
CATEGORY_SCHEMAS ==
    ("masuk_biasa" :>
          <<"nomor_urut", "index_surat", "kode", "tgl_surat", "isi_ringkas",
            "asal_surat", "nomor_surat", "lampiran", "pengolah", "tgl_diteruskan",
            "disposisi_ketua", "tgl_masuk", "tujuan", "tgl_surat_turun",
            "disposisi_sekwan">>) @@
    ("undangan" :>
          <<"nomor_urut", "index_surat", "kode", "tgl_surat_masuk",
            "tgl_penyelesaian", "isi_ringkas", "asal_surat", "nomor_surat",
            "lampiran", "keterangan", "tgl_masuk_surat", "diperuntukan",
            "tgl_surat_turun", "disposisi_sekwan">>) @@
    ("masuk_penting" :>
          <<"nomor_urut", "index_surat", "kode", "tgl_surat_masuk", "isi_ringkas",
            "asal_surat", "nomor_surat", "lampiran", "pengolah", "tgl_diteruskan",
            "disposisi_ketua", "tgl_masuk", "tujuan", "tgl_surat_turun",
            "disposisi_sekwan">>) @@
    ("keluar" :>
          <<"nomor_urut", "index_surat", "kode", "isi_ringkas", "kepada",
            "pengolah", "tgl_surat", "lampiran", "catatan">>) @@
    ("keluar_sekwan" :>
          <<"nomor_urut", "index_surat", "kode", "isi_ringkas", "kepada",
            "pengolah", "tgl_surat", "lampiran", "catatan">>) @@
    ("rahasia" :>
          <<"nomor_urut", "index_surat", "kode", "tgl_terima_surat",
            "isi_ringkas", "asal_surat", "nomor_surat", "lampiran", "pengolah",
            "tgl_diteruskan", "catatan">>)

\* the kategori of a submission: those of the table, and two that it lacks
Kategori == DOMAIN CATEGORY_SCHEMAS \cup {"unknown", ""}

\* variant: the three default fields for every kategori
RequiredFields_Default(kategori) == <<"nomor_surat", "tgl_surat", "isi_ringkas">>

\* required_fields of extract_fields: CATEGORY_SCHEMAS.get(kategori, []), and
\* three default fields for a kategori without fields
RequiredFields(kategori) ==
    IF kategori \in DOMAIN CATEGORY_SCHEMAS /\ CATEGORY_SCHEMAS[kategori] # <<>>
    THEN CATEGORY_SCHEMAS[kategori]
    ELSE <<"nomor_surat", "tgl_surat", "isi_ringkas">>

\* the fields requested for two submissions
RequiredOfBoth(in) ==
    [first |-> RequiredFields(in.first), second |-> RequiredFields(in.second)]

SchemaInit == Applying([first : Kategori, second : Kategori])

SchemaNext == Apply(RequiredOfBoth)

SchemaSpec == SchemaInit /\ [][SchemaNext]_vars

(* ---------------- the reference table and the matcher's copy ---------------- *)
\* the rows of ref_klasifikasi or of an imported CSV file, as the keterangan
\* of kode 1, 2, ...
ReferenceTables ==
    {<<>>, <<<<"rapat">>>>, <<<<"dinas">>>>, <<<<"rapat">>, <<"dinas">>>>,
     <<<<"dinas">>, <<"rapat">>>>}

\* kode_data after KodeArsipMatcher(): the rows of a table that has rows;
\* for an empty table the rows of the CSV file, or None without that file;
\* None after an exception
LoadOutcomes(table) ==
    {NotLoaded} \cup (IF table # <<>> THEN {Loaded(table)}
                      ELSE {Loaded(csv) : csv \in ReferenceTables})

\* ref_klasifikasi after import_master_data: "replace" deletes the rows
\* first; "append" updates the rows whose kode exists and inserts the others
Imported(action, table, csv) ==
    IF action = "replace" THEN csv
    ELSE [kode \in 1..Max(Len(table), Len(csv)) |->
             IF kode <= Len(csv) THEN csv[kode] ELSE table[kode]]

\* the server is up: the matcher was constructed once
ServingInit ==
    /\ pc = "serving"
    /\ ref_klasifikasi \in ReferenceTables
    /\ kode_data \in LoadOutcomes(ref_klasifikasi)
    /\ kode_enabled \in BOOLEAN
    /\ input = [op |-> "none"]
    /\ output = <<>>
    /\ mode = "unified"
    /\ api_key = TRUE
    /\ available = TRUE
    /\ other = "absent"
    /\ phase = "none"
    /\ attempt = 0
    /\ delay = 0
    /\ waits = <<>>
    /\ callInv = 0
    /\ callRecs = 0
    /\ recFailed = FALSE
    /\ lastMsg = {}
    /\ lastClass = "none"
    /\ res = NoResult
    /\ invTotal = 0
    /\ calls = <<>>
    /\ recs = 0
    /\ recCost = 0
    /\ callTokens = [input |-> 0, output |-> 0]
    /\ raw_text = "empty"
    /\ isi_ringkas = "empty"
    /\ summary_confidence = 85
    /\ steps_completed = <<>>
    /\ steps_failed = <<>>
    /\ total_tokens = [input |-> 0, output |-> 0]
    /\ ran = {}
    /\ status = "none"
    /\ code = "none"
    /\ detail = NoDetail
    /\ message = "none"
    /\ extracted_fields = <<>>
    /\ field_confidences = <<>>
    /\ requires_manual_review = FALSE

\* POST /import-master-data with a CSV file that parses: the rows are written
\* and committed, or an exception rolls them back
import_master_data ==
    /\ pc \in {"serving", "imported"}
    /\ \E action \in {"replace", "append"}, csv \in ReferenceTables, committed \in BOOLEAN :
         IF committed
         THEN /\ ref_klasifikasi' = Imported(action, ref_klasifikasi, csv)
              /\ pc' = "imported"
              /\ input' = [op |-> "import", action |-> action]
         ELSE /\ input' = [op |-> "import failed", action |-> action]
              /\ UNCHANGED <<pc, ref_klasifikasi>>
    /\ output' = <<>>
    /\ UNCHANGED <<kode_data, callVars, api_key, available, kode_enabled, other,
                   subVars, outVars>>

\* the kode matching of a submission (process.py 332-335)
MatchKode ==
    /\ pc \in {"serving", "imported"}
    /\ \E summary \in Summaries :
         /\ input' = [op |-> "match", isi_ringkas |-> summary]
         /\ output' = match([enabled |-> kode_enabled, loaded |-> kode_data.loaded,
                             kode_data |-> kode_data.rows, isi_ringkas |-> summary])
    /\ UNCHANGED <<pc, refVars, callVars, api_key, available, kode_enabled, other,
                   subVars, outVars>>

ServingNext == import_master_data \/ MatchKode

ServingSpec == ServingInit /\ [][ServingNext]_vars

(* ---------------- one backend call on its own ---------------- *)
\* the pipeline's state when it enters _call_with_retry for an operation
EntryMode(operation) == IF operation = "unified_extract" THEN "unified" ELSE "legacy"

EntrySteps(operation) ==
    CASE operation = "summarization" -> <<"validation", "preprocessing", "ocr">>
      [] operation = "auto_fill" -> <<"validation", "preprocessing", "ocr", "summarization">>
      [] OTHER -> <<"validation", "preprocessing">>

EntryText(operation) ==
    IF operation \in {"summarization", "auto_fill"} THEN "text" ELSE "empty"

CallInit ==
    /\ pc = "unified_extract"
    /\ mode = EntryMode(pc)
    /\ api_key = TRUE
    /\ available = TRUE
    /\ kode_enabled = FALSE
    /\ other = "absent"
    /\ input = "none"
    /\ output = "none"
    /\ NoReference
    /\ phase = "invoke"
    /\ attempt = 0
    /\ delay = 0
    /\ waits = <<>>
    /\ callInv = 0
    /\ callRecs = 0
    /\ recFailed = FALSE
    /\ lastMsg = {}
    /\ lastClass = "none"
    /\ res = NoResult
    /\ invTotal = 0
    /\ calls = <<pc>>
    /\ recs = 0
    /\ recCost = 0
    /\ callTokens = [input |-> 0, output |-> 0]
    /\ raw_text = EntryText(pc)
    /\ isi_ringkas = IF pc = "auto_fill" THEN "text" ELSE "empty"
    /\ summary_confidence = 85
    /\ steps_completed = EntrySteps(pc)
    /\ steps_failed = <<>>
    /\ total_tokens = [input |-> 0, output |-> 0]
    /\ ran = {}
    /\ status = "none"
    /\ code = "none"
    /\ detail = NoDetail
    /\ message = "none"
    /\ extracted_fields = <<>>
    /\ field_confidences = <<>>
    /\ requires_manual_review = FALSE

\* the call has returned; another call of _call_with_retry is made
CallAgain ==
    /\ pc \in Operations
    /\ phase = "returned"
    /\ \E operation \in Operations :
         /\ pc' = operation
         /\ mode' = EntryMode(operation)
         /\ calls' = <<operation>>
         /\ raw_text' = EntryText(operation)
         /\ isi_ringkas' = IF operation = "auto_fill" THEN "text" ELSE "empty"
         /\ steps_completed' = EntrySteps(operation)
    /\ phase' = "invoke"
    /\ EndCall
    /\ invTotal' = 0
    /\ recs' = 0
    /\ recCost' = 0
    /\ callTokens' = [input |-> 0, output |-> 0]
    /\ UNCHANGED <<envVars, summary_confidence, steps_failed, total_tokens, ran,
                   status, code, detail, outVars>>

CallNext ==
    \/ AttemptSucceeds(Tokens)
    \/ AttemptFails(Messages)
    \/ AttemptRecordFails
    \/ WakeUp
    \/ CallAgain

CallSpec == CallInit /\ [][CallNext]_vars

(* ======================= properties ======================= *)
Range(seq) == {seq[i] : i \in 1..Len(seq)}

\* C1: one backend call makes at most 4 invocations, a unified submission at
\* most 4 and a legacy submission at most 12, and every submission that has
\* started eventually returns a result or an error.
C1_SubmissionTerminates ==
    /\ [](/\ callInv <= 4
          /\ (mode = "unified" => invTotal <= 4)
          /\ (mode = "legacy" => invTotal <= 12))
    /\ ((pc \notin {"idle", "done"})
          ~> (pc = "done" /\ status \in {"success", "partial_success", "error"}))

C1_Witness ==
    pc = "done" /\ mode = "legacy" /\ invTotal = 12 /\ status = "partial_success"

\* C2: an attempt classified FatalAuth makes the call return failure at once:
\* no wait follows it (the waits are those of the earlier attempts only), the
\* invocations are the attempts made so far, and no invocation follows.
C2_FatalAuthReturnsAtOnce ==
    /\ [](lastClass = "FatalAuth" =>
            /\ phase = "returned"
            /\ ~res.success
            /\ res.error = "GEMINI_CONFIG_ERROR"
            /\ delay = 0
            /\ Len(waits) = attempt
            /\ callInv = attempt + 1
            /\ (attempt = 0 => callInv = 1))
    /\ [][lastClass = "FatalAuth" => (phase' # "sleep" /\ callInv' <= callInv
                                        /\ invTotal' <= invTotal)]_vars

C2_Witness ==
    lastClass = "FatalAuth" /\ attempt = 2 /\ callInv = 3 /\ phase = "returned"

\* C3: the wait after failed attempt i of class Transient, ServerError or
\* Unknown is 2, 4, 8 seconds for i = 0, 1, 2 (never above 32), and a call that
\* is exhausted without any rate-limit wait has waited exactly [2, 4, 8].
C3_BackoffDelays ==
    /\ (phase = "sleep" /\ lastClass \in {"Transient", "ServerError", "Unknown"}) =>
          /\ attempt \in 0..2
          /\ delay = <<2, 4, 8>>[attempt + 1]
          /\ delay <= 32
          /\ waits[Len(waits)] = delay
    /\ (/\ phase = "returned"
        /\ res.fallback_reason = "Max retries exhausted"
        /\ \A i \in 1..Len(waits) : waits[i] # 60) => waits = <<2, 4, 8>>

C3_Witness ==
    /\ phase = "returned"
    /\ res.fallback_reason = "Max retries exhausted"
    /\ waits = <<2, 4, 8>>

\* C4: every wait that follows a RateLimited attempt is exactly 60 seconds,
\* whatever the attempt index and the earlier waits of the call.
C4_RateLimitWait ==
    (phase = "sleep" /\ lastClass = "RateLimited") =>
        (delay = 60 /\ waits[Len(waits)] = 60 /\ Len(waits) = attempt + 1)

C4_Witness ==
    phase = "sleep" /\ lastClass = "RateLimited" /\ waits = <<2, 4, 60>>

\* C5: a call that returns failure without a FatalAuth attempt has made the
\* initial attempt and exactly 3 retries, slept 3 times (not after the last
\* attempt) and returns <OPERATION>_FAILED, "Max retries exhausted", no tokens.
C5_RetriesExhausted ==
    (phase = "returned" /\ ~res.success /\ callInv > 0 /\ lastClass # "FatalAuth") =>
        /\ callInv = 4
        /\ attempt = 3
        /\ Len(waits) = 3
        /\ delay = 0
        /\ res.error = [unified_extract |-> "UNIFIED_EXTRACT_FAILED", ocr |-> "OCR_FAILED",
                        summarization |-> "SUMMARIZATION_FAILED",
                        auto_fill |-> "AUTO_FILL_FAILED"][pc]
        /\ res.fallback_reason = "Max retries exhausted"
        /\ res.input_tokens = 0
        /\ res.output_tokens = 0
        /\ res.cost = 0

C5_Witness ==
    /\ phase = "returned"
    /\ pc = "summarization"
    /\ res.error = "SUMMARIZATION_FAILED"
    /\ waits = <<60, 4, 60>>

\* C6: a failure to write the usage record after a successful backend response
\* causes no wait and no further invocation, and the call returns success.
C6_RecordFailureIgnored ==
    recFailed => (phase = "returned" /\ res.success /\ waits = <<>> /\ callInv = 1)

\* C7 (as stated): when a call has returned, it has emitted one usage record
\* per attempt.
C7_OneRecordPerAttempt ==
    phase = "returned" => callRecs = callInv

\* C7 (amended): only an attempt whose backend invocation succeeded and whose
\* row was written emits a usage record, and it ends the call: a returned call
\* has emitted 1 record if it succeeded and 0 if it failed, a call in progress 0.
C7_RecordOnSuccessOnly ==
    /\ callRecs <= callInv
    /\ (phase = "returned" => callRecs = IF res.success THEN 1 ELSE 0)
    /\ (phase \in {"invoke", "sleep"} => callRecs = 0)
    /\ recs = callRecs

C7_Witness ==
    phase = "returned" /\ res.success /\ callInv = 3 /\ callRecs = 1

\* C8 (as stated): when the unified backend call has failed, the pipeline goes
\* on with the legacy transcription instead of ending with an error.
C8_FallsBackToLegacy ==
    [][(pc = "unified_extract" /\ phase = "returned" /\ ~res.success) =>
          (pc' = "ocr" /\ status' # "error")]_vars

\* C8 (amended): when the unified backend call has failed, the submission ends
\* with error OCR_FAILED naming the step unified_extract, with no raw text and
\* without any legacy call or later step.
C8_UnifiedFailureIsFatal ==
    /\ [][(pc = "unified_extract" /\ phase = "returned" /\ ~res.success) =>
            /\ pc' = "done"
            /\ status' = "error"
            /\ code' = "OCR_FAILED"
            /\ detail'.step_failed = "unified_extract"
            /\ raw_text' = "empty"
            /\ invTotal' = invTotal]_vars
    /\ []((pc = "done" /\ detail.step_failed = "unified_extract") =>
            /\ mode = "unified"
            /\ Range(calls) \subseteq {"unified_extract"}
            /\ ran = {}
            /\ detail.error_type \in {"GEMINI_CONFIG_ERROR", "UNIFIED_EXTRACT_FAILED"})

C8_Witness ==
    /\ pc = "done"
    /\ mode = "unified"
    /\ detail = [step_failed |-> "unified_extract", error_type |-> "UNIFIED_EXTRACT_FAILED"]
    /\ invTotal = 4

\* C9: in legacy mode, after a non-blank transcription, a summarization or
\* field-extraction call that fails or returns an empty response is replaced by
\* its fallback, the step is listed as failed, and the submission still
\* returns a result.
C9_LegacyFallbacks ==
    /\ [][(/\ pc = "summarization"
           /\ phase = "returned"
           /\ (~res.success \/ res.data \in {"none", "empty"})) =>
            /\ pc' = "auto_fill"
            /\ "summary_fallback" \in ran'
            /\ "summarization" \in Range(steps_failed')
            /\ summary_confidence' \in {40, 50, 60}
            /\ status' # "error"]_vars
    /\ [][(/\ pc = "auto_fill"
           /\ phase = "returned"
           /\ (~res.success \/ res.data \in {"none", "empty"})) =>
            /\ pc' = "done"
            /\ "pattern_fallback" \in ran'
            /\ "auto_fill" \in Range(steps_failed')
            /\ status' = "partial_success"]_vars
    /\ [](pc \in {"summarization", "auto_fill"} => (mode = "legacy" /\ raw_text = "text"))
    /\ []((pc = "done" /\ mode = "legacy" /\ "ocr" \in Range(steps_completed)) =>
            /\ status \in {"success", "partial_success"}
            /\ (status = "success" <=> steps_failed = <<>>))

C9_Witness ==
    /\ pc = "done"
    /\ mode = "legacy"
    /\ steps_failed = <<"summarization", "auto_fill">>
    /\ {"summary_fallback", "pattern_fallback"} \subseteq ran
    /\ status = "partial_success"

\* C10: a failed transcription ends the submission with OCR_FAILED and a blank
\* transcription (legacy or unified) with NO_TEXT_EXTRACTED; after either no
\* summarization or field-extraction call, fallback, aggregation, matching or
\* storing runs.
C10_NoTextIsFatal ==
    /\ [][(pc = "ocr" /\ phase = "returned" /\ ~res.success) =>
            (pc' = "done" /\ status' = "error" /\ code' = "OCR_FAILED")]_vars
    /\ [][(/\ pc = "ocr"
           /\ phase = "returned"
           /\ res.success
           /\ res.data \in {"none", "empty", "blank"}) =>
            (pc' = "done" /\ status' = "error" /\ code' = "NO_TEXT_EXTRACTED")]_vars
    /\ [][(/\ pc = "unified_extract"
           /\ phase = "returned"
           /\ res.success
           /\ res.data \in {"none", "empty", "blank", "obj_missing", "obj_empty", "obj_blank"}) =>
            (pc' = "done" /\ status' = "error" /\ code' = "NO_TEXT_EXTRACTED")]_vars
    /\ []((pc = "done" /\ code \in {"OCR_FAILED", "NO_TEXT_EXTRACTED"}) =>
            /\ status = "error"
            /\ ran = {}
            /\ Range(calls) \cap {"summarization", "auto_fill"} = {}
            /\ steps_failed = <<>>)

C10_Witness ==
    /\ pc = "done"
    /\ mode = "legacy"
    /\ code = "NO_TEXT_EXTRACTED"
    /\ raw_text = "blank"
    /\ calls = <<"ocr">>

\* the ErrorCode enumeration (core/constants.py 110-122)
ErrorCode ==
    {"INVALID_CATEGORY", "INVALID_FILE", "FILE_TOO_LARGE", "OCR_FAILED",
     "NO_TEXT_EXTRACTED", "GEMINI_API_ERROR", "GEMINI_RATE_LIMIT",
     "GEMINI_CONFIG_ERROR", "DATABASE_ERROR", "NOT_FOUND", "VALIDATION_ERROR",
     "UNKNOWN_ERROR"}

\* C11 (as stated): the outcome of every submission that reached the backend
\* is a success, a partial success that lists its fallback steps, or an error
\* with a code of ErrorCode;
\* no exception leaves process_surat (the global handler never answers) and no
\* outcome carries the text of an exception.
C11_OutcomeIsStructured ==
    (pc = "done" /\ calls # <<>>) =>
        /\ \/ status = "success" /\ steps_failed = <<>>
           \/ status = "partial_success" /\ steps_failed # <<>> /\ message = "fallback_steps"
           \/ status = "error" /\ code \in ErrorCode
        /\ code # "INTERNAL_SERVER_ERROR"
        /\ message # "exception_text"

\* C12 (as stated): while one submission is in a retry wait of the backend
\* client, another submission that has arrived can run: its progress does not
\* depend on the first one leaving the wait.
C12_OthersNotBlocked ==
    (phase = "sleep" /\ other = "queued") => ENABLED OtherRuns

C15_NullHasZeroConfidence ==
    (pc = "done" /\ status \in {"success", "partial_success"}) =>
        \A field \in DOMAIN extracted_fields :
            extracted_fields[field] = "none" => field_confidences[field] = 0

\* a response text between two code fence lines
Fenced(text) == <<"fence">> \o text \o <<"fence">>

\* the numbers of opening and of closing braces of a text differ
Unbalanced(text) ==
    Cardinality({i \in 1..Len(text) : HasOpen(text[i])})
        # Cardinality({i \in 1..Len(text) : HasClose(text[i])})

\* C16 (as stated): a valid JSON object inside a fenced code block is parsed
\* to the same raw text, summary and fields as the object on its own, and a
\* response whose braces are unbalanced gives a success whose raw text is the
\* whole response, whose summary is its first 200 characters and whose field
\* map is empty, and no exception.
C16_FencedAndUnbalanced ==
    pc = "applied" =>
        /\ \A object \in {<<"{", "members", "}">>, <<"{", "}">>} :
              input = Fenced(object) => output = ParseUnifiedResponse(object)
        /\ Unbalanced(input) => output = RawOnly(input)

\* C17 (as stated): when the JSON of a successful unified response is not an
\* object, or is an object whose raw_text key is null or missing, no exception
\* is raised and turned into a failure of the extraction: the submission does
\* not end with OCR_FAILED and the text of an exception.
C17_MissingKeysAreNotErrors ==
    [][(/\ pc = "unified_extract"
        /\ phase = "returned"
        /\ res.success
        /\ res.data \in {"nonobject", "obj_null", "obj_missing"}) =>
          (code' # "OCR_FAILED" /\ message' # "exception_text")]_vars


\* C18: the pattern fallback for nomor_surat on the text
\* 'Nomor Surat: 123/ABC/2026' yields '123/ABC/2026' at confidence 0.55, and
\* a field none of whose patterns matches yields (null, 0.0).
C18_LabelledNumber ==
    (pc = "applied" /\ "nomor_surat" \in input.required_fields) =>
        /\ input.text = <<"Nomor", "Surat", ":", "123/ABC/2026">> =>
               output["nomor_surat"] = FieldResult("123/ABC/2026", 55)
        /\ (\A k \in 1..3 : Rule("nomor_surat", k, input.text) = NoMatch) =>
               output["nomor_surat"] = FieldResult("none", 0)

\* the lowest pattern of a field that matches the text, 0 when none does
FirstMatching(field, text) ==
    First({k \in 1..4 : Rule(field, k, text) # NoMatch})

\* C19: the patterns of a field are consulted in the listed order and the
\* first one that matches alone decides, also when the date it captured
\* fails normalization; the result is (normalized date, 0.60), (raw captured
\* date, 0.45), (captured value, 0.55) or (null, 0.0), never above 0.60, and
\* the returned map has exactly the requested fields as keys.
C19_FirstMatchDecides ==
    pc = "applied" =>
        /\ DOMAIN output = input.required_fields
        /\ \A field \in DOMAIN output :
               LET k == FirstMatching(field, input.text)
                   value == Rule(field, k, input.text)
                   normalized == validate_date_format(DateOf(value))
               IN /\ output[field].confidence <= 60
                  /\ IF k = 0 THEN output[field] = FieldResult("none", 0)
                     ELSE IF ~IsDateField(field)
                          THEN output[field] = FieldResult(value, 55)
                     ELSE IF normalized # NoDate
                          THEN output[field] = FieldResult(ToText(normalized), 60)
                     ELSE output[field] = FieldResult(value, 45)

\* a labelled date that fails normalization decided although a later pattern
\* matches a date that normalizes
C19_Witness ==
    /\ pc = "applied"
    /\ input.required_fields = PatternFields
    /\ output["tgl_surat"] = FieldResult("28 Januari 2026", 45)
    /\ FirstMatching("tgl_surat", input.text) = 1
    /\ Rule("tgl_surat", 3, input.text) = "28/01/2026"
    /\ output["nomor_surat"].confidence = 55

\* YYYY-MM-DD: four digits, two digits, two digits, joined by hyphens
IsIsoDate(date) ==
    /\ date.sep = "-"
    /\ Len(date.parts) = 3
    /\ date.parts[1] = "2026"
    /\ date.parts[2] \in {"01", "02"}
    /\ date.parts[3] \in {"01", "02", "26", "28", "31"}

\* C20: date normalization returns null or a date in the form YYYY-MM-DD and
\* is idempotent on its non-null outputs; '28/01/2026' and '28 Januari 2026'
\* both normalize to '2026-01-28', and 'soon' normalizes to null.
C20_DateNormalization ==
    pc = "applied" =>
        /\ output = NoDate \/ IsIsoDate(output)
        /\ output # NoDate => validate_date_format(output) = output
        /\ input = DateString(<<"28", "01", "2026">>, "/") =>
               output = DateString(<<"2026", "01", "28">>, "-")
        /\ input = DateString(<<"28", "Januari", "2026">>, " ") =>
               output = DateString(<<"2026", "01", "28">>, "-")
        /\ input = DateString(<<"soon">>, " ") => output = NoDate


\* C21: for a source image of width w and height h that preprocessing
\* accepts, the transmission image has its longer edge exactly 800 pixels
\* with the aspect ratio kept up to integer rounding when max(w, h) > 800
\* (4000x3000 gives 800x600), and has exactly the size w x h when both are
\* at most 800 (600x400 is passed through unchanged).
C21_TransmissionSize ==
    (pc = "applied" /\ output.success) =>
        LET longer == Max(input.width, input.height)
            sent == output.transmission
        IN IF longer > GEMINI_MAX_DIMENSION
           THEN /\ Max(sent.width, sent.height) = GEMINI_MAX_DIMENSION
                /\ sent.width * longer <= GEMINI_MAX_DIMENSION * input.width
                /\ (sent.width + 1) * longer > GEMINI_MAX_DIMENSION * input.width
                /\ sent.height * longer <= GEMINI_MAX_DIMENSION * input.height
                /\ (sent.height + 1) * longer > GEMINI_MAX_DIMENSION * input.height
           ELSE sent = input


\* the confidence match gives to row i of the table for the summary
RowScore(in, i) ==
    Confidence(Matches(in.kode_data[i], in.isi_ringkas), Len(in.kode_data[i]))

\* the rows that match returned
Returned == {output[k].kode : k \in 1..Len(output)}

\* the description of row i and the summary have a word in common
SharesWord(in, i) ==
    \E k \in 1..Len(in.kode_data[i]), j \in 1..Len(in.isi_ringkas) :
        Lower(in.kode_data[i][k]) = Lower(in.isi_ringkas[j])

\* at most 3 candidates, in non-increasing order of score, each scored
\* (matched words / words) * 0.7 within 0 < score <= 0.7 and no lower than
\* any row left out; none at all when the feature flag is off
RankedCandidates ==
    /\ ~input.enabled => output = <<>>
    /\ (input.enabled /\ input.kode_data # <<>> /\ input.isi_ringkas # <<>>) =>
           /\ Len(output) <= 3
           /\ \A k \in 1..Len(output) :
                  /\ output[k].kode \in 1..Len(input.kode_data)
                  /\ output[k].confidence = RowScore(input, output[k].kode)
                  /\ output[k].confidence.num > 0
                  /\ ~Below(Ratio(7, 10), output[k].confidence)
                  /\ k > 1 => ~Below(output[k - 1].confidence, output[k].confidence)
                  /\ \A i \in (1..Len(input.kode_data)) \ Returned :
                         \/ Matches(input.kode_data[i], input.isi_ringkas) = 0
                         \/ ~Below(output[k].confidence, RowScore(input, i))

\* C22 as stated: with matching enabled, a non-empty table and a non-empty
\* summary, match returns at most 3 candidates in non-increasing order of
\* score = (matched words / words) * 0.7, no returned candidate scores
\* lower than a row left out, and a row whose description shares no word
\* with the summary is never returned; with the flag off it returns none.
C22_NoSharedWordNoCandidate ==
    pc = "applied" =>
        /\ RankedCandidates
        /\ \A i \in Returned : SharesWord(input, i)

\* C22 amended: as above, but a row is left out when none of its description
\* words occurs in the summary as a substring, whole word or not.
C22_NoOccurrenceNoCandidate ==
    pc = "applied" =>
        /\ RankedCandidates
        /\ \A i \in Returned : Matches(input.kode_data[i], input.isi_ringkas) > 0

\* four rows match with different scores: the table order is changed,
\* one matching row is cut off and a row that shares no word is returned
C22_Witness ==
    /\ pc = "applied"
    /\ input.enabled
    /\ Len(output) = 3
    /\ Cardinality({i \in 1..Len(input.kode_data) :
                       Matches(input.kode_data[i], input.isi_ringkas) > 0}) = 4
    /\ output[1].kode > output[2].kode
    /\ Below(output[3].confidence, output[1].confidence)
    /\ \E i \in Returned : ~SharesWord(input, i)


\* the FieldResults that a successful backend response can give a field:
\* parsed from its JSON object, recovered from malformed JSON, or taken from
\* the unified response
BackendResults ==
    {ParsedField(v) : v \in JsonValues}
        \cup MalformedOutcomes
        \cup {FieldResult(Get(v), UnifiedConfidence(Get(v))) : v \in JsonValues}

\* the confidences of the non-null values among them, and of a backend summary
BackendConfidences ==
    {r.confidence : r \in {b \in BackendResults : b.value # "none"}} \cup {85}

\* C23: every non-null field value and every summary that a deterministic
\* fallback (pattern fallback, summary fallback) produced carries a
\* confidence strictly below the confidence of any non-null value or summary
\* taken from a successful backend response, the recovery from a malformed
\* response included.
C23_FallbackBelowBackend ==
    (pc = "done" /\ status \in {"success", "partial_success"}) =>
        /\ "auto_fill" \in Range(steps_failed) =>
               \A field \in DOMAIN extracted_fields \ {"isi_ringkas"} :
                   extracted_fields[field] # "none" =>
                       \A c \in BackendConfidences : field_confidences[field] < c
        /\ ("summarization" \in Range(steps_failed) /\ isi_ringkas # "empty") =>
               \A c \in BackendConfidences : summary_confidence < c


\* C24: a backend failure whose message contains an invalid-credential
\* marker ('api key', 'authentication') is classified FatalAuth and ends the
\* call without a retry, also when the message contains a rate-limit, a
\* transient or a server marker as well.
C24_CredentialMarkerIsFatal ==
    lastMsg \cap AuthMarkers # {} =>
        /\ lastClass = "FatalAuth"
        /\ phase = "returned"
        /\ ~res.success
        /\ res.error = "GEMINI_CONFIG_ERROR"


\* a Perihal/Hal/Re/Subject label is found in the text
LabelFound(text) == \E i \in 1..Len(text) : LabelMatches(text, i)

\* the text has a sentence longer than 20 characters that is no heading
SentenceFound(text) == \E s \in Starts(text) : IsMeaningful(text, s)

\* C25: the summary fallback returns for every text a summary of at most 200
\* characters whose confidence names the tier, tried in this order: 0.60 when
\* a label is found, else 0.50 for the first sentence longer than 20
\* characters that is no upper-case heading, else 0.40 for the first 200
\* characters of the text; an empty or blank text gives an empty summary at
\* 0.0, marked as fallback and reported as success, and a text that is not
\* blank never gives an empty summary.
C25_SummaryTiers ==
    pc = "applied" =>
        LET text == Clean(input) IN
        /\ output.length <= MAX_SUMMARY_LENGTH
        /\ output.success /\ output.used_fallback
        /\ text = <<>> => output.length = 0 /\ output.confidence = 0
        /\ (text # <<>> /\ LabelFound(text)) => output.confidence = 60
        /\ (text # <<>> /\ ~LabelFound(text) /\ SentenceFound(text)) =>
               /\ output.confidence = 50
               /\ \E s \in Starts(text) :
                      /\ IsMeaningful(text, s)
                      /\ \A r \in Starts(text) : r < s => ~IsMeaningful(text, r)
                      /\ output.summary = Sentence(text, s)
        /\ (text # <<>> /\ ~LabelFound(text) /\ ~SentenceFound(text)) =>
               /\ output.confidence = 40
               /\ output.summary = text
        /\ text # <<>> => output.length > 0


\* the table has six categories, and the two requested ones each have a
\* field and hold isi_ringkas
SixCategoriesWithSummary ==
    /\ Cardinality(DOMAIN CATEGORY_SCHEMAS) = 6
    /\ Len(output.first) >= 1
    /\ Len(output.second) >= 1
    /\ "isi_ringkas" \in Range(output.first) \cap Range(output.second)

\* C26 as stated: the category schema has exactly six categories, every
\* category has at least one field and contains isi_ringkas, and two distinct
\* categories have no field name in common other than isi_ringkas.
C26_DisjointSchemas ==
    (pc = "applied" /\ {input.first, input.second} \subseteq DOMAIN CATEGORY_SCHEMAS) =>
        /\ SixCategoriesWithSummary
        /\ input.first # input.second =>
               Range(output.first) \cap Range(output.second) \subseteq {"isi_ringkas"}

\* C26 amended: six categories, each with isi_ringkas; every two categories
\* have nomor_urut, index_surat, kode and lampiran in common besides
\* isi_ringkas, and no category lists a field twice.
C26_SharedFields ==
    (pc = "applied" /\ {input.first, input.second} \subseteq DOMAIN CATEGORY_SCHEMAS) =>
        /\ SixCategoriesWithSummary
        /\ {"isi_ringkas", "nomor_urut", "index_surat", "kode", "lampiran"}
               \subseteq Range(output.first) \cap Range(output.second)
        /\ Cardinality(Range(output.first)) = Len(output.first)

\* two distinct categories with the same nine fields
C26_Witness ==
    /\ pc = "applied"
    /\ input.first = "keluar"
    /\ input.second = "keluar_sekwan"
    /\ output.first = output.second
    /\ Len(output.first) = 9


\* C27: the matcher's table in memory is loaded once and no pipeline
\* operation changes it; after the import has replaced or appended rows of
\* the reference table, the table in memory is refreshed, so that every
\* match made after the import is computed against the imported rows.
C27_ImportRefreshesCache ==
    /\ []((pc = "imported" /\ input.op = "match") =>
             output = match([enabled |-> kode_enabled, loaded |-> TRUE,
                             kode_data |-> ref_klasifikasi,
                             isi_ringkas |-> input.isi_ringkas]))
    /\ [][kode_data' # kode_data => input'.op = "import"]_vars


\* a result with status success or partial_success has been returned
Succeeded == pc = "done" /\ status \in {"success", "partial_success"}

\* gemini_api_usage.estimated_cost_usd before rounding (process.py 351-354)
estimated_cost == calculate_cost(total_tokens.input, total_tokens.output)

\* C28: in every successful result, in both modes, the reported input-token
\* total is the sum of the input tokens and the reported output-token total
\* is the sum of the output tokens of the successful backend calls of the
\* submission, and the reported estimated cost is the sum of the costs
\* written to the usage records of the submission.
C28_ReportedUsage ==
    Succeeded =>
        /\ total_tokens.input = callTokens.input
        /\ total_tokens.output = callTokens.output
        /\ estimated_cost = recCost


\* extracted_data.isi_ringkas of the response (process.py 431-435): the key
\* of extracted_fields, spread last, replaces the summary written before it
extracted_data_isi_ringkas ==
    IF "isi_ringkas" \in DOMAIN extracted_fields
    THEN extracted_fields["isi_ringkas"]
    ELSE isi_ringkas

\* C29: in every successful result the summary inside the extracted field
\* data (key isi_ringkas) is the same string as the top-level summary, and the
\* confidence reported for isi_ringkas is the confidence of that summary.
C29_OneSummary ==
    Succeeded =>
        /\ extracted_data_isi_ringkas = isi_ringkas
        /\ field_confidences["isi_ringkas"] = summary_confidence


\* the steps whose result came from the fallback in this submission
FallbackSteps ==
    (IF "summary_fallback" \in ran THEN {"summarization"} ELSE {})
    \cup (IF "pattern_fallback" \in ran THEN {"auto_fill"} ELSE {})

NoStepTwice(steps) == Cardinality(Range(steps)) = Len(steps)

\* C30: a returned result is partial_success exactly when summarization or
\* field extraction used its fallback, and success otherwise; the fallback
\* steps are exactly the ones in steps_failed, no step is in both
\* steps_completed and steps_failed, no step is twice in steps_completed,
\* and a unified-mode result is never partial_success.
C30_StepLists ==
    Succeeded =>
        /\ status = (IF FallbackSteps # {} THEN "partial_success" ELSE "success")
        /\ Range(steps_failed) = FallbackSteps
        /\ Range(steps_completed) \cap Range(steps_failed) = {}
        /\ NoStepTwice(steps_completed)
        /\ mode = "unified" => status = "success"
====
